---- MODULE Spec2Model ----
(***************************************************************************)
(* A model of the nanoclaw message bridge: the outbound sanitizer and the  *)
(* router of src/router.ts, and the Discord channel adapter                *)
(* (src/channels/discord.ts).  Texts are TLA+ strings and the regular      *)
(* expressions of the source are modelled character by character.          *)
(***************************************************************************)
EXTENDS Integers, Sequences, FiniteSets, TLC

VARIABLES
    \* --- the outbound sanitizer (pure functions of router.ts) ---
    rawPieces,   \* how the agent text under test was put together
    rawText,     \* the agent text handed to the function
    fn,          \* the function applied to rawText ("none" before the call)
    outText,     \* what the function returned
    messages,    \* the canonical messages handed to formatMessages or collectAttachments
    collected,   \* the list collectAttachments returned
    mount,       \* the mount request handed to the mount validator
    verdict,     \* what the mount validator returned
    \* --- the router (router.ts) ---
    channels,    \* the ordered list of channels handed to the router
    calls,       \* the sends invoked on channels so far, in order
    lastOp,      \* the last router operation: its arguments and outcome
    \* --- the Discord channel (discord.ts) ---
    client,      \* this.client: 0 for null, else the index of a client
    clients,     \* every Client created by connect(), in creation order
    handlers,    \* the runs of the event handlers, one per event emitted
    callbacks,   \* the calls of opts.onChatMetadata and opts.onMessage, in order
    now,         \* the clock: the value of the last Date.now()
    ops          \* the calls of the channel's send operations, in call order

sanVars == <<rawPieces, rawText, fn, outText, messages, collected, mount, verdict>>

routerVars == <<channels, calls, lastOp>>

discordVars == <<client, clients, handlers, callbacks, now, ops>>

vars ==
    <<rawPieces, rawText, fn, outText, messages, collected, mount, verdict,
      channels, calls, lastOp,
      client, clients, handlers, callbacks, now, ops>>

(***************************************************************************)
(* Bounds of the model.                                                    *)
(***************************************************************************)
MaxPieces == 6

MaxChannels == 2

MaxCalls == 1

MaxClients == 2

MaxEvents == 1

MaxContentPieces == 3

MaxClock == 1

MaxBodyPieces == 3

MaxOps == 1

\* the longest batch of messages collectAttachments is applied to
MaxBatch == 2

\* the most segments of a requested host path
MaxDepth == 3

\* the most ownsJid answers recorded in one behaviour
MaxAnswers == 3

\* the most inbound events handled at the same time
MaxConcurrent == 2

(***************************************************************************)
(* Strings.                                                                *)
(***************************************************************************)
Min(S) == CHOOSE x \in S : \A y \in S : x =< y

CharAt(s, i) == SubSeq(s, i, i)

\* s.startsWith(pat, at - 1): pat occurs in s at the 1-based position at
OccursAt(s, pat, at) ==
    /\ at >= 1
    /\ at + Len(pat) - 1 =< Len(s)
    /\ SubSeq(s, at, at + Len(pat) - 1) = pat

\* the first position >= from at which pat occurs in s, 0 when there is none
IndexOf(s, pat, from) ==
    LET hits == {k \in from..(Len(s) - Len(pat) + 1) : OccursAt(s, pat, k)}
    IN  IF hits = {} THEN 0 ELSE Min(hits)

Includes(s, pat) == IndexOf(s, pat, 1) # 0

WhiteSpace == {" ", "\t", "\n", "\r"}

IsSpace(c) == c \in WhiteSpace

RECURSIVE TrimStart(_)
TrimStart(s) ==
    IF Len(s) > 0 /\ IsSpace(CharAt(s, 1))
    THEN TrimStart(SubSeq(s, 2, Len(s)))
    ELSE s

RECURSIVE TrimEnd(_)
TrimEnd(s) ==
    IF Len(s) > 0 /\ IsSpace(CharAt(s, Len(s)))
    THEN TrimEnd(SubSeq(s, 1, Len(s) - 1))
    ELSE s

\* String.prototype.trim
Trim(s) == TrimEnd(TrimStart(s))

RECURSIVE Flatten(_)
Flatten(ps) == IF ps = <<>> THEN "" ELSE Head(ps) \o Flatten(Tail(ps))

SeqsUpTo(S, n) == UNION {[1..k -> S] : k \in 0..n}

\* lines.join('\n')
RECURSIVE Join(_)
Join(lines) ==
    IF lines = <<>> THEN ""
    ELSE IF Len(lines) = 1 THEN Head(lines)
    ELSE Head(lines) \o "\n" \o Join(Tail(lines))

(***************************************************************************)
(* router.ts: stripInternalTags and formatOutbound.                        *)
(***************************************************************************)
InternalOpen == "<internal>"

InternalClose == "</internal>"

\* the scan below with a greedy quantifier: the match runs to the last close marker
ReplaceInternalGreedy(s) ==
    LET i == IndexOf(s, InternalOpen, 1)
        after == {k \in (i + Len(InternalOpen))..Len(s) : OccursAt(s, InternalClose, k)}
        j == CHOOSE k \in after : \A m \in after : m =< k
    IN  IF i = 0 \/ after = {}
        THEN s
        ELSE SubSeq(s, 1, i - 1) \o SubSeq(s, j + Len(InternalClose), Len(s))

\* the scan below without the g flag: only the first match is removed
ReplaceInternalFirstOnly(s) ==
    LET i == IndexOf(s, InternalOpen, 1)
        j == IndexOf(s, InternalClose, i + Len(InternalOpen))
    IN  IF i = 0 \/ j = 0
        THEN s
        ELSE SubSeq(s, 1, i - 1) \o SubSeq(s, j + Len(InternalClose), Len(s))

\* text.replace(/<internal>[\s\S]*?<\/internal>/g, ''): one pass from the
\* left; each match starts at the first open marker still ahead and ends
\* with the first close marker after it; the scan resumes after the match.
RECURSIVE ReplaceInternal(_)
ReplaceInternal(s) ==
    LET i == IndexOf(s, InternalOpen, 1)
        j == IndexOf(s, InternalClose, i + Len(InternalOpen))
    IN  IF i = 0 \/ j = 0
        THEN s
        ELSE SubSeq(s, 1, i - 1)
               \o ReplaceInternal(SubSeq(s, j + Len(InternalClose), Len(s)))

stripInternalTags(text) == Trim(ReplaceInternal(text))

\* formatOutbound without the trim
formatOutboundUntrimmed(text) == ReplaceInternal(text)

formatOutbound(text) ==
    LET stripped == stripInternalTags(text)
    IN  IF stripped = "" THEN "" ELSE stripped

(***************************************************************************)
(* router.ts: escapeXml and formatMessages.                                *)
(***************************************************************************)
\* s.replace(/c/g, r) for a single character c
RECURSIVE ReplaceChar(_, _, _)
ReplaceChar(s, c, r) ==
    IF s = "" THEN ""
    ELSE (IF CharAt(s, 1) = c THEN r ELSE CharAt(s, 1))
         \o ReplaceChar(SubSeq(s, 2, Len(s)), c, r)

\* the four replacements with the ampersand escaped last
escapeXmlAmpersandLast(s) ==
    IF s = "" THEN ""
    ELSE ReplaceChar(ReplaceChar(ReplaceChar(ReplaceChar(s,
             "<", "&lt;"), ">", "&gt;"), "\"", "&quot;"), "&", "&amp;")

escapeXml(s) ==
    IF s = "" THEN ""
    ELSE ReplaceChar(ReplaceChar(ReplaceChar(ReplaceChar(s,
             "&", "&amp;"), "<", "&lt;"), ">", "&gt;"), "\"", "&quot;")

\* the line of one message
FormatMessage(m) ==
    "<message sender=\"" \o escapeXml(m.sender_name) \o "\" time=\"" \o m.timestamp
        \o "\">" \o escapeXml(m.content) \o "</message>"

formatMessages(ms) ==
    "<messages>\n" \o Join([k \in 1..Len(ms) |-> FormatMessage(ms[k])]) \o "\n</messages>"

(***************************************************************************)
(* router.ts: collectAttachments.  A message's attachments field is absent *)
(* (defined FALSE) or a list; acc holds the set seen and the array result. *)
(***************************************************************************)
RECURSIVE CollectList(_, _)
CollectList(list, acc) ==
    IF list = <<>> THEN acc
    ELSE LET att == Head(list)
         IN  CollectList(Tail(list),
                 IF att.path \in acc.seen THEN acc
                 ELSE [seen |-> acc.seen \cup {att.path},
                       result |-> Append(acc.result, att)])

RECURSIVE CollectBatch(_, _)
CollectBatch(ms, acc) ==
    IF ms = <<>> THEN acc.result
    ELSE CollectBatch(Tail(ms),
             IF ~Head(ms).attachments.defined THEN acc
             ELSE CollectList(Head(ms).attachments.list, acc))

\* the collector keeping, at the place of the first attachment of a path,
\* the last attachment of that path
RECURSIVE KeepLast(_)
KeepLast(list) ==
    IF list = <<>> THEN <<>>
    ELSE LET rest == KeepLast(Tail(list))
             first == Min({k \in 1..Len(rest) : rest[k].path = Head(list).path})
         IN  IF \E k \in 1..Len(rest) : rest[k].path = Head(list).path
             THEN <<rest[first]>> \o [k \in 1..(Len(rest) - 1) |->
                                        IF k < first THEN rest[k] ELSE rest[k + 1]]
             ELSE <<Head(list)>> \o rest

RECURSIVE AllAttachments(_)
AllAttachments(ms) ==
    IF ms = <<>> THEN <<>>
    ELSE (IF Head(ms).attachments.defined THEN Head(ms).attachments.list ELSE <<>>)
         \o AllAttachments(Tail(ms))

collectAttachmentsKeepingLast(ms) == KeepLast(AllAttachments(ms))

\* the collector returning its list from the last path seen to the first
collectAttachmentsReversed(ms) ==
    LET r == CollectBatch(ms, [seen |-> {}, result |-> <<>>])
    IN  [k \in 1..Len(r) |-> r[Len(r) + 1 - k]]

collectAttachments(ms) == CollectBatch(ms, [seen |-> {}, result |-> <<>>])

(***************************************************************************)
(* The mount allowlist validator.  types.ts declares its data              *)
(* (AdditionalMount, MountAllowlist, AllowedRoot); its decision follows    *)
(* section 4.9 of the specification.  A path is a record: tilde tells      *)
(* whether it starts with the home shorthand, segs are its segments.       *)
(***************************************************************************)
HomeDir == <<"home", "u">>

Path(tilde, segs) == [tilde |-> tilde, segs |-> segs]

\* the segments without "." and with every ".." taken with the segment
\* before it; ".." at the top stays at the top
RECURSIVE NormalizeFrom(_, _)
NormalizeFrom(segs, acc) ==
    IF segs = <<>> THEN acc
    ELSE IF Head(segs) = "." THEN NormalizeFrom(Tail(segs), acc)
    ELSE IF Head(segs) = ".."
    THEN NormalizeFrom(Tail(segs),
             IF acc = <<>> THEN acc ELSE SubSeq(acc, 1, Len(acc) - 1))
    ELSE NormalizeFrom(Tail(segs), Append(acc, Head(segs)))

\* the leading home shorthand expanded, then the path normalized
ResolvePath(p) == NormalizeFrom((IF p.tilde THEN HomeDir ELSE <<>>) \o p.segs, <<>>)

\* the absolute path as a string
RECURSIVE PathString(_)
PathString(segs) ==
    IF segs = <<>> THEN "" ELSE "/" \o Head(segs) \o PathString(Tail(segs))

\* containment by comparing the strings of the two paths
ContainedInByString(real, root) ==
    LET p == PathString(real)
        r == PathString(root)
    IN  Len(r) =< Len(p) /\ SubSeq(p, 1, Len(r)) = r

\* containment of a resolved path in a resolved root: the root's segments
\* are the first segments of the path
ContainedIn(real, root) ==
    /\ Len(root) =< Len(real)
    /\ SubSeq(real, 1, Len(root)) = root

\* a deny pattern matches a segment: a pattern "*x" matches a name ending
\* in x, any other pattern the name equal to it
GlobMatches(pattern, name) ==
    IF Len(pattern) > 0 /\ CharAt(pattern, 1) = "*"
    THEN LET tail == SubSeq(pattern, 2, Len(pattern))
         IN  /\ Len(name) >= Len(tail)
             /\ SubSeq(name, Len(name) - Len(tail) + 1, Len(name)) = tail
    ELSE name = pattern

Blocked(real, allowlist) ==
    \E k \in 1..Len(real), b \in 1..Len(allowlist.blockedPatterns) :
        GlobMatches(allowlist.blockedPatterns[b], real[k])

\* the allowed roots that contain the resolved path, in allowlist order
RootsOf(real, allowlist) ==
    {k \in 1..Len(allowlist.allowedRoots) :
        ContainedIn(real, ResolvePath(allowlist.allowedRoots[k].path))}

NoRequest == [hostPath |-> Path(FALSE, <<>>), readonly |-> [defined |-> FALSE, value |-> TRUE],
              isMain |-> TRUE,
              allowlist |-> [allowedRoots |-> <<>>, blockedPatterns |-> <<>>,
                             nonMainReadOnly |-> FALSE]]

NoVerdict == [allowed |-> FALSE, reason |-> "none", hostPath |-> <<>>, readonly |-> TRUE]

Rejected(reason) == [allowed |-> FALSE, reason |-> reason, hostPath |-> <<>>, readonly |-> TRUE]

\* the validator leaving the write permission to the request and the root
validateMountTrustingRoot(req) ==
    LET real == ResolvePath(req.hostPath)
        roots == RootsOf(real, req.allowlist)
        root == req.allowlist.allowedRoots[Min(roots)]
        wantsWrite == req.readonly.defined /\ ~req.readonly.value
    IN  IF Blocked(real, req.allowlist) THEN Rejected("blocked")
        ELSE IF roots = {} THEN Rejected("outside")
        ELSE [allowed |-> TRUE, reason |-> "allowed", hostPath |-> real,
              readonly |-> ~(wantsWrite /\ root.allowReadWrite)]

\* the decision on a request: rejected when the resolved path matches a
\* deny pattern or lies in no allowed root; else allowed, read-only unless
\* the request asks for write access (readonly defaults to true), the root
\* allows it, and the requester is primary or the allowlist does not force
\* non-primary groups to read-only
validateMount(req) ==
    LET real == ResolvePath(req.hostPath)
        roots == RootsOf(real, req.allowlist)
        root == req.allowlist.allowedRoots[Min(roots)]
        wantsWrite == req.readonly.defined /\ ~req.readonly.value
        forced == req.allowlist.nonMainReadOnly /\ ~req.isMain
    IN  IF Blocked(real, req.allowlist) THEN Rejected("blocked")
        ELSE IF roots = {} THEN Rejected("outside")
        ELSE [allowed |-> TRUE, reason |-> "allowed", hostPath |-> real,
              readonly |-> ~(wantsWrite /\ root.allowReadWrite /\ ~forced)]

(***************************************************************************)
(* router.ts: routeOutbound and routeFile.  A channel is what the router   *)
(* sees of it: the addresses ownsJid accepts, isConnected(), and whether   *)
(* the optional sendFile is present.                                       *)
(***************************************************************************)
Jids == {"dc:1", "tg:1"}

ChannelStates == [owned : SUBSET Jids, connected : BOOLEAN, sendFile : BOOLEAN]

ownsJid(c, jid) == jid \in c.owned

isConnected(c) == c.connected

\* the selection taking the last live channel instead of the first
SelectLastLive(chs, jid) ==
    LET hits == {k \in 1..Len(chs) : ownsJid(chs[k], jid) /\ isConnected(chs[k])}
    IN  IF hits = {} THEN 0 ELSE CHOOSE k \in hits : \A m \in hits : m =< k

\* the selection that forgets isConnected
SelectOwner(chs, jid) ==
    LET hits == {k \in 1..Len(chs) : ownsJid(chs[k], jid)}
    IN  IF hits = {} THEN 0 ELSE Min(hits)

\* channels.find((c) => c.ownsJid(jid) && c.isConnected()), the selection of
\* routeOutbound and routeFile: the index of the first match, 0 for undefined
SelectLive(chs, jid) ==
    LET hits == {k \in 1..Len(chs) : ownsJid(chs[k], jid) /\ isConnected(chs[k])}
    IN  IF hits = {} THEN 0 ELSE Min(hits)

Call(k, op, jid, payload) == [ch |-> k, op |-> op, jid |-> jid, payload |-> payload]

Op(op, jid, text, outcome) ==
    [op |-> op, jid |-> jid, text |-> text, outcome |-> outcome,
     callsBefore |-> Len(calls), found |-> 0]

\* routeOutbound(channels, jid, text), called as operation op
RouteOutboundAs(op, jid, text) ==
    LET k == SelectLive(channels, jid)
    IN  IF k = 0
        THEN /\ lastOp' = Op(op, jid, text, "NoChannelForJid")
             /\ UNCHANGED <<channels, calls>>
        ELSE /\ calls' = Append(calls, Call(k, "sendMessage", jid, text))
             /\ lastOp' = Op(op, jid, text, "forwarded")
             /\ UNCHANGED channels

routeOutbound(jid, text) ==
    /\ Len(calls) < MaxCalls
    /\ RouteOutboundAs("routeOutbound", jid, text)
    /\ UNCHANGED <<sanVars, discordVars>>

\* routeFile falling back to plain text when sendFile is missing
routeFileWithFallback(jid, filePath) ==
    LET k == SelectLive(channels, jid)
    IN  /\ Len(calls) < MaxCalls
        /\ IF k = 0
           THEN /\ lastOp' = Op("routeFile", jid, filePath, "NoChannelForJid")
                /\ UNCHANGED <<channels, calls>>
           ELSE /\ calls' = Append(calls,
                      Call(k, IF channels[k].sendFile THEN "sendFile" ELSE "sendMessage",
                           jid, filePath))
                /\ lastOp' = Op("routeFile", jid, filePath, "forwarded")
                /\ UNCHANGED channels
        /\ UNCHANGED <<sanVars, discordVars>>

routeFile(jid, filePath) ==
    LET k == SelectLive(channels, jid)
    IN  /\ Len(calls) < MaxCalls
        /\ IF k = 0
           THEN /\ lastOp' = Op("routeFile", jid, filePath, "NoChannelForJid")
                /\ UNCHANGED <<channels, calls>>
           ELSE IF ~channels[k].sendFile
           THEN /\ lastOp' = Op("routeFile", jid, filePath, "FileSendingUnsupported")
                /\ UNCHANGED <<channels, calls>>
           ELSE /\ calls' = Append(calls, Call(k, "sendFile", jid, filePath))
                /\ lastOp' = Op("routeFile", jid, filePath, "forwarded")
                /\ UNCHANGED channels
        /\ UNCHANGED <<sanVars, discordVars>>

\* the lookup that asks isConnected() as the routing functions do
SelectConnectedOwner(chs, jid) ==
    LET hits == {k \in 1..Len(chs) : ownsJid(chs[k], jid) /\ isConnected(chs[k])}
    IN  IF hits = {} THEN 0 ELSE Min(hits)

\* channels.find((c) => c.ownsJid(jid)), the lookup of findChannel: the
\* index of the first match, 0 for undefined
SelectOwning(chs, jid) ==
    LET hits == {k \in 1..Len(chs) : ownsJid(chs[k], jid)}
    IN  IF hits = {} THEN 0 ELSE Min(hits)

\* findChannel(channels, jid): its result is kept in lastOp.found
findChannel(jid) ==
    LET k == SelectOwning(channels, jid)
    IN  /\ lastOp' = [Op("findChannel", jid, "", IF k = 0 THEN "undefined" ELSE "found")
                         EXCEPT !.found = k]
        /\ UNCHANGED <<channels, calls>>
        /\ UNCHANGED <<sanVars, discordVars>>

\* The caller of the sanitizer and the router: an agent text is sanitized
\* and routed, and an empty sanitized text is nothing to send.
sendAgentOutput(jid, raw) ==
    LET text == formatOutbound(raw)
    IN  /\ Len(calls) < MaxCalls
        /\ IF text = ""
           THEN /\ lastOp' = Op("sendAgentOutput", jid, raw, "nothingToSend")
                /\ UNCHANGED <<channels, calls>>
           ELSE RouteOutboundAs("sendAgentOutput", jid, text)
        /\ UNCHANGED <<sanVars, discordVars>>

\* the texts and file paths handed to the router
AgentTexts ==
    {"hi", "<internal>x</internal>", " <internal>x</internal> hi", " "}

FilePaths == {"/tmp/a.png"}

(***************************************************************************)
(* discord.ts: the texts of the MessageCreate handler.                     *)
(***************************************************************************)
ASSISTANT_NAME == "Andy"

\* client.user.id, the same for every client logged in with botToken
BotId == "999"

SenderName == "Alice"

ReplyAuthor == "Bob"

MessageTimestamp == "2024-01-01T00:00:00.000Z"

UpperAlpha == "ABCDEFGHIJKLMNOPQRSTUVWXYZ"

LowerAlpha == "abcdefghijklmnopqrstuvwxyz"

Digits == "0123456789"

Chars(s) == {CharAt(s, k) : k \in 1..Len(s)}

UpperChars == Chars(UpperAlpha)

\* [a-zA-Z0-9_], the \w of a regular expression
WordChars == Chars(UpperAlpha \o LowerAlpha \o Digits \o "_")

\* [a-zA-Z0-9._-]
SafeNameChars == Chars(UpperAlpha \o LowerAlpha \o Digits \o "._-")

LowerChar(c) ==
    IF c \in UpperChars THEN CharAt(LowerAlpha, IndexOf(UpperAlpha, c, 1)) ELSE c

RECURSIVE LowerCase(_)
LowerCase(s) ==
    IF s = "" THEN "" ELSE LowerChar(CharAt(s, 1)) \o LowerCase(SubSeq(s, 2, Len(s)))

IsWordChar(c) == c \in WordChars

\* TRIGGER_PATTERN.test(s), the pattern being /^@Andy\b/i
TRIGGER_PATTERN(s) ==
    LET lit == "@" \o ASSISTANT_NAME
        n == Len(lit)
    IN  /\ Len(s) >= n
        /\ LowerCase(SubSeq(s, 1, n)) = LowerCase(lit)
        /\ (Len(s) = n \/ ~IsWordChar(CharAt(s, n + 1)))

MentionToken == "<@" \o BotId \o ">"

NickMentionToken == "<@!" \o BotId \o ">"

\* content.replace(new RegExp(`<@!?${botId}>`, 'g'), ''): one pass from the left
RECURSIVE StripMentions(_)
StripMentions(s) ==
    LET a == IndexOf(s, MentionToken, 1)
        b == IndexOf(s, NickMentionToken, 1)
        i == IF a = 0 THEN b ELSE IF b = 0 THEN a ELSE Min({a, b})
        n == IF i = a THEN Len(MentionToken) ELSE Len(NickMentionToken)
    IN  IF i = 0
        THEN s
        ELSE SubSeq(s, 1, i - 1) \o StripMentions(SubSeq(s, i + n, Len(s)))

isBotMentioned(content, mentionsBot) ==
    \/ mentionsBot
    \/ Includes(content, MentionToken)
    \/ Includes(content, NickMentionToken)

\* the translation of a mention of the bot, entered when this.client.user is set
TranslateMention(content, mentionsBot) ==
    LET stripped == Trim(StripMentions(content))
    IN  IF ~isBotMentioned(content, mentionsBot) THEN content
        ELSE IF TRIGGER_PATTERN(stripped) THEN stripped
        ELSE "@" \o ASSISTANT_NAME \o " " \o stripped

(***************************************************************************)
(* discord.ts: attachments.                                                *)
(***************************************************************************)
MAX_ATTACHMENT_DOWNLOAD_SIZE == 26214400

MegaByte == 1024 * 1024

\* Math.round(a / b) for naturals
RoundDiv(a, b) == (2 * a + b) \div (2 * b)

StartsWith(s, pat) == OccursAt(s, pat, 1)

AttContentType(att) ==
    IF att.contentType = "" THEN "application/octet-stream" ELSE att.contentType

AttName(att) == IF att.name = "" THEN "file" ELSE att.name

AttIsImage(att) == StartsWith(AttContentType(att), "image/")

\* the name taken as it is
SanitizeNameKeepingAll(name) == name

\* name.replace(/[^a-zA-Z0-9._-]/g, '_')
RECURSIVE SanitizeName(_)
SanitizeName(name) ==
    IF name = "" THEN ""
    ELSE (IF CharAt(name, 1) \in SafeNameChars THEN CharAt(name, 1) ELSE "_")
         \o SanitizeName(SubSeq(name, 2, Len(name)))

\* the path of the download started at time ts, relative to the group folder
RelativePath(att, ts) == "inbox/" \o ToString(ts) \o "-" \o SanitizeName(AttName(att))

TooLargeLine(att) ==
    "[File too large: " \o AttName(att) \o " ("
        \o ToString(RoundDiv(att.size, MegaByte)) \o "MB, max "
        \o ToString(RoundDiv(MAX_ATTACHMENT_DOWNLOAD_SIZE, MegaByte)) \o "MB)]"

\* the arrow of the source is written -> here
DownloadedLine(att, ts) ==
    (IF AttIsImage(att) THEN "[Image: " ELSE "[File: ")
        \o AttName(att) \o " -> " \o RelativePath(att, ts) \o "]"

PlaceholderLine(att) ==
    (IF AttIsImage(att) THEN "[Image: "
     ELSE IF StartsWith(AttContentType(att), "video/") THEN "[Video: "
     ELSE IF StartsWith(AttContentType(att), "audio/") THEN "[Audio: "
     ELSE "[File: ")
        \o AttName(att) \o "]"

\* the buffer written is taken to have the advertised size
Downloaded(att, ts) ==
    [filename |-> AttName(att), path |-> RelativePath(att, ts),
     mimeType |-> AttContentType(att), size |-> att.size, isImage |-> AttIsImage(att)]

(***************************************************************************)
(* discord.ts: the channel, its clients and the MessageCreate handler.     *)
(* A handler run is suspended while it awaits the replied-to message       *)
(* (pc "reply") or the download of an attachment (pc "fetch"); between     *)
(* two awaits it runs without interruption.  Its field failed holds the    *)
(* attachments whose download failed, its field reply what became of the   *)
(* lookup of the replied-to message, its field fetching the attachments   *)
(* whose download is in flight.                                            *)
(***************************************************************************)
\* opts.registeredGroups(): the addresses of the registered groups
registeredGroups == {"dc:1"}

ChatJid(ev) == "dc:" \o ev.channelId

\* guild name and channel name for a guild channel, else the sender's name
ChatName(ev) == IF ev.guild THEN "Srv #general" ELSE SenderName

\* the state of a channel after its constructor
DiscordNew ==
    /\ client = 0
    /\ clients = <<>>
    /\ handlers = <<>>
    /\ callbacks = <<>>
    /\ now = 0
    /\ ops = <<>>

\* this.client?.user
ClientUser == client # 0 /\ clients[client].ready

NoMessage == [id |-> 0, content |-> "", attachments |-> [defined |-> FALSE, list |-> <<>>]]

OnChatMetadata(id, ev) ==
    [cb |-> "onChatMetadata", h |-> id, jid |-> ChatJid(ev),
     timestamp |-> MessageTimestamp, name |-> ChatName(ev), msg |-> NoMessage]

OnMessage(id, ev, content, downloaded) ==
    [cb |-> "onMessage", h |-> id, jid |-> ChatJid(ev),
     timestamp |-> MessageTimestamp, name |-> SenderName,
     msg |-> [id |-> id, content |-> content,
              attachments |-> [defined |-> Len(downloaded) > 0, list |-> downloaded]]]

\* the delivery putting the attachment lines before the text
DeliverLinesFirst(id, h) ==
    LET content ==
            IF Len(h.descriptions) > 0
            THEN IF h.content # ""
                 THEN Join(h.descriptions) \o "\n" \o h.content
                 ELSE Join(h.descriptions)
            ELSE h.content
    IN  [h |-> [h EXCEPT !.pc = "done", !.content = content, !.att = 0, !.ts = 0],
         out |-> <<OnMessage(id, h.ev, content, h.downloaded)>>]

\* the body gets the attachment lines, and the message is delivered
Deliver(id, h) ==
    LET content ==
            IF Len(h.descriptions) > 0
            THEN IF h.content # ""
                 THEN h.content \o "\n" \o Join(h.descriptions)
                 ELSE Join(h.descriptions)
            ELSE h.content
    IN  [h |-> [h EXCEPT !.pc = "done", !.content = content, !.att = 0, !.ts = 0],
         out |-> <<OnMessage(id, h.ev, content, h.downloaded)>>]

\* the attachment loop starting the downloads of all the attachments left
\* at once
AttachmentLoopAllAtOnce(id, h, k, t) ==
    LET rest == {j \in k..Len(h.ev.attachments) :
                    h.ev.attachments[j].size =< MAX_ATTACHMENT_DOWNLOAD_SIZE}
    IN  IF rest = {}
        THEN Deliver(id, h)
        ELSE [h |-> [h EXCEPT !.pc = "fetch", !.att = Min(rest), !.ts = t,
                              !.fetching = @ \cup rest],
              out |-> <<>>]

\* the attachment loop fetching every attachment, whatever its size
AttachmentLoopFetchingAll(id, h, k, t) ==
    IF k > Len(h.ev.attachments)
    THEN Deliver(id, h)
    ELSE [h |-> [h EXCEPT !.pc = "fetch", !.att = k, !.ts = t,
                          !.fetching = @ \cup {k}],
          out |-> <<>>]

\* the attachment loop from the k-th attachment on, up to the next fetch;
\* t is what Date.now() returns if the loop gets to read it
RECURSIVE AttachmentLoop(_, _, _, _)
AttachmentLoop(id, h, k, t) ==
    IF k > Len(h.ev.attachments)
    THEN Deliver(id, h)
    ELSE LET att == h.ev.attachments[k]
         IN  IF att.size > MAX_ATTACHMENT_DOWNLOAD_SIZE
             THEN AttachmentLoop(id,
                      [h EXCEPT !.descriptions = Append(@, TooLargeLine(att))], k + 1, t)
             ELSE [h |-> [h EXCEPT !.pc = "fetch", !.att = k, !.ts = t,
                                   !.fetching = @ \cup {k}],
                   out |-> <<>>]

\* the clock after a step that leaves the handler run as h: Date.now() was
\* read, and returned t, exactly if the step ended in a fetch
Clock(h, t) ==
    /\ t >= now
    /\ t =< MaxClock
    /\ IF h.pc = "fetch" THEN now' = t ELSE t = now /\ now' = now

\* the handler delivering without looking at the registered groups
FromMetadataUnchecked(id, h, inboxOk, t) ==
    LET meta == <<OnChatMetadata(id, h.ev)>>
        loop == AttachmentLoop(id, h, 1, t)
        sent == Deliver(id, h)
    IN  IF Len(h.ev.attachments) = 0
        THEN [h |-> sent.h, out |-> meta \o sent.out]
        ELSE IF ~inboxOk
        THEN [h |-> [h EXCEPT !.pc = "threw"], out |-> meta]
        ELSE [h |-> loop.h, out |-> meta \o loop.out]

\* the handler from the metadata report on; inboxOk: the group folder
\* resolves and its inbox directory can be made
FromMetadata(id, h, inboxOk, t) ==
    LET meta == <<OnChatMetadata(id, h.ev)>>
        loop == AttachmentLoop(id, h, 1, t)
        sent == Deliver(id, h)
    IN  IF ChatJid(h.ev) \notin registeredGroups
        THEN [h |-> [h EXCEPT !.pc = "done"], out |-> meta]
        ELSE IF Len(h.ev.attachments) = 0
        THEN [h |-> sent.h, out |-> meta \o sent.out]
        ELSE IF ~inboxOk
        THEN [h |-> [h EXCEPT !.pc = "threw"], out |-> meta]
        ELSE [h |-> loop.h, out |-> meta \o loop.out]

\* A client: ready is isReady() and client.user being set, login the state
\* of the promise client.login() returned, promise the state of the promise
\* the connect() that made the client returned.
NewClient == [ready |-> FALSE, destroyed |-> FALSE, login |-> "pending", promise |-> "pending"]

\* an operation awaiting a call of the platform
Outstanding(o) == o.pc \notin {"done", "threw"}

connect ==
    /\ Len(clients) < MaxClients
    /\ clients' = Append(clients, NewClient)
    /\ client' = Len(clients) + 1
    /\ UNCHANGED <<handlers, callbacks, now, ops>>
    /\ UNCHANGED <<sanVars, routerVars>>

\* the client has logged in: client.user is set, isReady() holds and the
\* promise of the connect() that made the client resolves
ClientReady(c) ==
    /\ c \in 1..Len(clients)
    /\ clients[c].login = "pending"
    /\ ~clients[c].destroyed
    /\ clients' = [clients EXCEPT ![c].ready = TRUE, ![c].login = "ok",
                                  ![c].promise = "resolved"]
    /\ UNCHANGED <<client, handlers, callbacks, now, ops>>
    /\ UNCHANGED <<sanVars, routerVars>>

\* The platform rejects the login of client c.  The promise of login() is
\* neither awaited nor given a handler, and nothing settles the promise of
\* connect(), which has no reject path.
LoginRejected(c) ==
    /\ c \in 1..Len(clients)
    /\ clients[c].login = "pending"
    /\ clients' = [clients EXCEPT ![c].login = "rejected"]
    /\ UNCHANGED <<client, handlers, callbacks, now, ops>>
    /\ UNCHANGED <<sanVars, routerVars>>

\* disconnect() that destroys the client and keeps the reference to it
disconnectKeepingClient ==
    /\ IF client # 0
       THEN /\ clients' = [clients EXCEPT ![client].ready = FALSE,
                                          ![client].destroyed = TRUE]
            /\ UNCHANGED client
       ELSE UNCHANGED <<client, clients>>
    /\ ops' = [i \in 1..Len(ops) |->
                 IF Outstanding(ops[i]) /\ client # 0
                 THEN [ops[i] EXCEPT !.interrupted = TRUE] ELSE ops[i]]
    /\ UNCHANGED <<handlers, callbacks, now>>
    /\ UNCHANGED <<sanVars, routerVars>>

\* disconnect(); the operations outstanding when a client is destroyed are
\* marked as interrupted
disconnect ==
    /\ IF client # 0
       THEN /\ clients' = [clients EXCEPT ![client].ready = FALSE,
                                          ![client].destroyed = TRUE]
            /\ client' = 0
       ELSE UNCHANGED <<client, clients>>
    /\ ops' = [i \in 1..Len(ops) |->
                 IF Outstanding(ops[i]) /\ client # 0
                 THEN [ops[i] EXCEPT !.interrupted = TRUE] ELSE ops[i]]
    /\ UNCHANGED <<handlers, callbacks, now>>
    /\ UNCHANGED <<sanVars, routerVars>>

\* the handler without the test of message.author.bot
MessageCreateFromAnyAuthor(c, ev, inboxOk, t) ==
    LET id == Len(handlers) + 1
        h == [client |-> c, ev |-> ev, pc |-> "start",
              content |-> IF ClientUser
                          THEN TranslateMention(ev.content, ev.mentionsBot)
                          ELSE ev.content,
              att |-> 0, ts |-> 0, descriptions |-> <<>>, downloaded |-> <<>>,
              failed |-> {}, reply |-> "none", fetching |-> {}]
        r == FromMetadata(id, h, inboxOk, t)
    IN  /\ c \in 1..Len(clients)
        /\ clients[c].ready
        /\ IF ev.reference
           THEN /\ handlers' = Append(handlers, [h EXCEPT !.pc = "reply", !.reply = "pending"])
                /\ UNCHANGED callbacks
           ELSE /\ handlers' = Append(handlers, r.h)
                /\ callbacks' = callbacks \o r.out
        /\ Clock(handlers'[id], t)
        /\ UNCHANGED <<client, clients, ops>>
        /\ UNCHANGED <<sanVars, routerVars>>

\* client c emits MessageCreate with message ev
MessageCreate(c, ev, inboxOk, t) ==
    LET id == Len(handlers) + 1
        h == [client |-> c, ev |-> ev, pc |-> "start",
              content |-> IF ClientUser
                          THEN TranslateMention(ev.content, ev.mentionsBot)
                          ELSE ev.content,
              att |-> 0, ts |-> 0, descriptions |-> <<>>, downloaded |-> <<>>,
              failed |-> {}, reply |-> "none", fetching |-> {}]
        r == FromMetadata(id, h, inboxOk, t)
    IN  /\ c \in 1..Len(clients)
        /\ clients[c].ready
        /\ IF ev.bot
           THEN /\ handlers' = Append(handlers, [h EXCEPT !.pc = "done", !.content = ev.content])
                /\ UNCHANGED callbacks
           ELSE IF ev.reference
           THEN /\ handlers' = Append(handlers, [h EXCEPT !.pc = "reply", !.reply = "pending"])
                /\ UNCHANGED callbacks
           ELSE /\ handlers' = Append(handlers, r.h)
                /\ callbacks' = callbacks \o r.out
        /\ Clock(handlers'[id], t)
        /\ UNCHANGED <<client, clients, ops>>
        /\ UNCHANGED <<sanVars, routerVars>>

\* the handler giving up when the replied-to message cannot be fetched
ReplySettledOrAbort(id, ok, inboxOk, t) ==
    /\ id \in 1..Len(handlers)
    /\ handlers[id].pc = "reply"
    /\ LET h == [handlers[id] EXCEPT !.content = "[Reply to " \o ReplyAuthor \o "] " \o @,
                                     !.reply = "resolved"]
           r == IF ok THEN FromMetadata(id, h, inboxOk, t)
                ELSE [h |-> [handlers[id] EXCEPT !.pc = "threw", !.reply = "failed"],
                      out |-> <<>>]
       IN  /\ handlers' = [handlers EXCEPT ![id] = r.h]
           /\ callbacks' = callbacks \o r.out
           /\ Clock(r.h, t)
    /\ UNCHANGED <<client, clients, ops>>
    /\ UNCHANGED <<sanVars, routerVars>>

\* the handler writing the marker whether or not the replied-to message
\* was fetched
ReplySettledAlwaysMarking(id, ok, inboxOk, t) ==
    /\ id \in 1..Len(handlers)
    /\ handlers[id].pc = "reply"
    /\ LET h == [handlers[id] EXCEPT
                    !.content = "[Reply to " \o ReplyAuthor \o "] " \o @,
                    !.reply = IF ok THEN "resolved" ELSE "failed"]
           r == FromMetadata(id, h, inboxOk, t)
       IN  /\ handlers' = [handlers EXCEPT ![id] = r.h]
           /\ callbacks' = callbacks \o r.out
           /\ Clock(r.h, t)
    /\ UNCHANGED <<client, clients, ops>>
    /\ UNCHANGED <<sanVars, routerVars>>

\* the fetch of the replied-to message resolves (ok) or rejects
ReplySettled(id, ok, inboxOk, t) ==
    /\ id \in 1..Len(handlers)
    /\ handlers[id].pc = "reply"
    /\ LET h == [handlers[id] EXCEPT
                    !.content = IF ok THEN "[Reply to " \o ReplyAuthor \o "] " \o @ ELSE @,
                    !.reply = IF ok THEN "resolved" ELSE "failed"]
           r == FromMetadata(id, h, inboxOk, t)
       IN  /\ handlers' = [handlers EXCEPT ![id] = r.h]
           /\ callbacks' = callbacks \o r.out
           /\ Clock(r.h, t)
    /\ UNCHANGED <<client, clients, ops>>
    /\ UNCHANGED <<sanVars, routerVars>>

\* the handler giving up when a download fails
FetchSettledOrAbort(id, ok, t) ==
    /\ id \in 1..Len(handlers)
    /\ handlers[id].pc = "fetch"
    /\ LET h0 == handlers[id]
           att == h0.ev.attachments[h0.att]
           h == [h0 EXCEPT !.downloaded = Append(@, Downloaded(att, h0.ts)),
                           !.descriptions = Append(@, DownloadedLine(att, h0.ts)),
                           !.fetching = @ \ {h0.att}]
           r == IF ok THEN AttachmentLoop(id, h, h0.att + 1, t)
                ELSE [h |-> [h0 EXCEPT !.pc = "threw", !.failed = @ \cup {h0.att},
                                       !.fetching = @ \ {h0.att}],
                      out |-> <<>>]
       IN  /\ handlers' = [handlers EXCEPT ![id] = r.h]
           /\ callbacks' = callbacks \o r.out
           /\ Clock(r.h, t)
    /\ UNCHANGED <<client, clients, ops>>
    /\ UNCHANGED <<sanVars, routerVars>>

\* the download of the attachment awaited ends: fetched and written (ok),
\* or the fetch, the body or the write failed
FetchSettled(id, ok, t) ==
    /\ id \in 1..Len(handlers)
    /\ handlers[id].pc = "fetch"
    /\ LET h0 == handlers[id]
           att == h0.ev.attachments[h0.att]
           h == IF ok
                THEN [h0 EXCEPT !.downloaded = Append(@, Downloaded(att, h0.ts)),
                                !.descriptions = Append(@, DownloadedLine(att, h0.ts)),
                                !.fetching = @ \ {h0.att}]
                ELSE [h0 EXCEPT !.descriptions = Append(@, PlaceholderLine(att)),
                                !.failed = @ \cup {h0.att},
                                !.fetching = @ \ {h0.att}]
           r == AttachmentLoop(id, h, h0.att + 1, t)
       IN  /\ handlers' = [handlers EXCEPT ![id] = r.h]
           /\ callbacks' = callbacks \o r.out
           /\ Clock(r.h, t)
    /\ UNCHANGED <<client, clients, ops>>
    /\ UNCHANGED <<sanVars, routerVars>>

(***************************************************************************)
(* discord.ts: the InteractionCreate handler.  A run is suspended while it *)
(* awaits the acknowledgment interaction.deferUpdate() (pc "defer"); its   *)
(* field acked tells whether deferUpdate() was called, its field ack how   *)
(* the acknowledgment stands: "none", "pending", "resolved", "rejected".   *)
(***************************************************************************)
\* JSON.stringify of a string: quoted, with backslashes and quotes escaped
JsonString(s) ==
    "\"" \o ReplaceChar(ReplaceChar(s, "\\", "\\\\"), "\"", "\\\"") \o "\""

\* the elements of a list, separated by commas
RECURSIVE JoinCommas(_)
JoinCommas(xs) ==
    IF Len(xs) = 0 THEN ""
    ELSE IF Len(xs) = 1 THEN xs[1]
    ELSE xs[1] \o "," \o JoinCommas(Tail(xs))

\* JSON.stringify(interaction.values)
JsonStringify(values) ==
    "[" \o JoinCommas([k \in 1..Len(values) |-> JsonString(values[k])]) \o "]"

\* the member's display name if the member has one, else the user's display
\* name, else the user's name
InteractionUserName(ev) ==
    IF ev.member.defined THEN ev.member.displayName
    ELSE IF ev.user.displayName # "" THEN ev.user.displayName
    ELSE ev.user.username

\* (interaction.component as any).label ?? interaction.customId
ButtonLabel(ev) == IF ev.label.defined THEN ev.label.value ELSE ev.customId

syntheticContent(ev) ==
    IF ev.kind = "button"
    THEN "@" \o ASSISTANT_NAME \o " [Button: " \o ev.customId \o " \""
         \o ButtonLabel(ev) \o "\" by " \o InteractionUserName(ev)
         \o " on message " \o ev.messageId \o "]"
    ELSE "@" \o ASSISTANT_NAME \o " [Select: " \o ev.customId \o " values="
         \o JsonStringify(ev.values) \o " by " \o InteractionUserName(ev)
         \o " on message " \o ev.messageId \o "]"

\* new Date().toISOString() when the interaction is delivered
InteractionTimestamp == "2024-01-01T00:00:01.000Z"

OnInteractionMessage(id, ev) ==
    [cb |-> "onMessage", h |-> id, jid |-> ChatJid(ev),
     timestamp |-> InteractionTimestamp, name |-> InteractionUserName(ev),
     msg |-> [id |-> id, content |-> syntheticContent(ev),
              attachments |-> [defined |-> FALSE, list |-> <<>>]]]

\* client c emits InteractionCreate with interaction ev: a button or a
\* select menu is acknowledged, anything else is left alone
InteractionCreate(c, ev) ==
    LET component == ev.kind \in {"button", "select"}
        h == [client |-> c, ev |-> ev, acked |-> component,
              ack |-> IF component THEN "pending" ELSE "none",
              pc |-> IF component THEN "defer" ELSE "done"]
    IN  /\ c \in 1..Len(clients)
        /\ clients[c].ready
        /\ handlers' = Append(handlers, h)
        /\ UNCHANGED <<client, clients, callbacks, now, ops>>
        /\ UNCHANGED <<sanVars, routerVars>>

\* the handler delivering without looking at the registered groups
AckSettledUnchecked(id, ok) ==
    /\ id \in 1..Len(handlers)
    /\ handlers[id].pc = "defer"
    /\ IF ~ok
       THEN /\ handlers' = [handlers EXCEPT ![id].pc = "threw", ![id].ack = "rejected"]
            /\ UNCHANGED callbacks
       ELSE /\ handlers' = [handlers EXCEPT ![id].pc = "done", ![id].ack = "resolved"]
            /\ callbacks' = Append(callbacks, OnInteractionMessage(id, handlers[id].ev))
    /\ UNCHANGED <<client, clients, now, ops>>
    /\ UNCHANGED <<sanVars, routerVars>>

\* the handler going on after a rejected acknowledgment
AckSettledEitherWay(id, ok) ==
    /\ id \in 1..Len(handlers)
    /\ handlers[id].pc = "defer"
    /\ handlers' = [handlers EXCEPT ![id].pc = "done",
                                    ![id].ack = IF ok THEN "resolved" ELSE "rejected"]
    /\ IF ChatJid(handlers[id].ev) \in registeredGroups
       THEN callbacks' = Append(callbacks, OnInteractionMessage(id, handlers[id].ev))
       ELSE UNCHANGED callbacks
    /\ UNCHANGED <<client, clients, now, ops>>
    /\ UNCHANGED <<sanVars, routerVars>>

\* deferUpdate() resolves (ok) or rejects: a rejection ends the handler,
\* else the synthetic message is delivered if the group is registered
AckSettled(id, ok) ==
    /\ id \in 1..Len(handlers)
    /\ handlers[id].pc = "defer"
    /\ IF ~ok
       THEN /\ handlers' = [handlers EXCEPT ![id].pc = "threw", ![id].ack = "rejected"]
            /\ UNCHANGED callbacks
       ELSE /\ handlers' = [handlers EXCEPT ![id].pc = "done", ![id].ack = "resolved"]
            /\ IF ChatJid(handlers[id].ev) \in registeredGroups
               THEN callbacks' = Append(callbacks, OnInteractionMessage(id, handlers[id].ev))
               ELSE UNCHANGED callbacks
    /\ UNCHANGED <<client, clients, now, ops>>
    /\ UNCHANGED <<sanVars, routerVars>>

(***************************************************************************)
(* discord.ts: isConnected and the send operations.  A run of an operation *)
(* is suspended while it awaits the platform: the channel lookup (pc       *)
(* "fetch"), a send ("send"), the typing indicator ("typing"), the lookup  *)
(* of the message to edit ("message") and the edit ("edit").  It ends as   *)
(* "done" when its promise resolves and as "threw", with the error, when   *)
(* its promise rejects.  A run records whether it was started before the connect() of  *)
(* this.client had resolved (early), the number of platform calls it has   *)
(* made and whether a disconnect() has destroyed the client while it was   *)
(* outstanding.                                                            *)
(***************************************************************************)
\* DiscordChannel.isConnected()
DiscordIsConnected == client # 0 /\ clients[client].ready

\* the connect() that made this.client has resolved
ConnectCompleted == client # 0 /\ clients[client].promise = "resolved"

MAX_LENGTH == 2000

\* the number of sends of a text of len characters
ChunksTruncated(len) == IF len =< MAX_LENGTH THEN 1 ELSE len \div MAX_LENGTH

Chunks(len) == IF len =< MAX_LENGTH THEN 1 ELSE (len + MAX_LENGTH - 1) \div MAX_LENGTH

TextLengths == {0, MAX_LENGTH, MAX_LENGTH + 1}

\* text.slice(i, i + MAX_LENGTH) of a text of len characters: the
\* characters from index from up to, but not including, index to
TextSlice(len, i) ==
    [from |-> i, to |-> IF i + MAX_LENGTH < len THEN i + MAX_LENGTH ELSE len]

\* the part of a text of len characters that its n-th send carries: the
\* whole text if it is short, else a slice
TextPart(len, n) ==
    IF len =< MAX_LENGTH THEN [from |-> 0, to |-> len]
    ELSE TextSlice(len, (n - 1) * MAX_LENGTH)

\* STYLE_MAP[btn.style || 'primary'] || ButtonStyle.Primary; an absent
\* style is the empty string
ButtonStyleOf(style) ==
    IF style \in {"primary", "secondary", "success", "danger"} THEN style ELSE "primary"

\* the builder made for one component; none for a type that is neither
\* button nor string_select
BuildComponent(comp) ==
    IF comp.type = "button"
    THEN <<[builder |-> "ButtonBuilder", custom_id |-> comp.custom_id,
            label |-> comp.label, style |-> ButtonStyleOf(comp.style),
            disabled |-> comp.disabled]>>
    ELSE IF comp.type = "string_select"
    THEN <<[builder |-> "StringSelectMenuBuilder", custom_id |-> comp.custom_id,
            placeholder |-> comp.placeholder, disabled |-> comp.disabled,
            options |-> comp.options]>>
    ELSE <<>>

RECURSIVE BuildComponents(_)
BuildComponents(comps) ==
    IF comps = <<>> THEN <<>>
    ELSE BuildComponent(Head(comps)) \o BuildComponents(Tail(comps))

\* the row builder adding the components from the last to the first
buildActionRowReversed(row) ==
    LET built == BuildComponents(row.components)
    IN  [builder |-> "ActionRowBuilder",
         components |-> [k \in 1..Len(built) |-> built[Len(built) + 1 - k]]]

buildActionRow(row) ==
    [builder |-> "ActionRowBuilder", components |-> BuildComponents(row.components)]

\* components.map((row) => buildActionRow(row))
BuildRows(rows) == [k \in 1..Len(rows) |-> buildActionRow(rows[k])]

\* the edit payload with both fields whatever was given
editPayloadClearing(args) ==
    [content |-> args.text.value, components |-> BuildRows(args.components.value)]

\* the payload of message.edit: a record with the field content if text is
\* given and the field components if components is given
editPayload(args) ==
    [f \in (IF args.text.defined THEN {"content"} ELSE {})
             \cup (IF args.components.defined THEN {"components"} ELSE {}) |->
        IF f = "content" THEN args.text.value ELSE BuildRows(args.components.value)]

\* the arguments of a call: an optional text, an optional list of action
\* rows, and for sendMessage the length of its text
Args(text, components, len) == [text |-> text, components |-> components, len |-> len]

Given(v) == [defined |-> TRUE, value |-> v]

NoText == [defined |-> FALSE, value |-> ""]

NoComponents == [defined |-> FALSE, value |-> <<>>]

\* the error a run that threw has thrown
Threw(o, error) == [o EXCEPT !.pc = "threw", !.error = error]

\* a run keeps its arguments (args), what it has handed to the platform's
\* send and edit (sent), what of it the platform has accepted (accepted), whether its catch has caught a rejection (caught)
\* and the value it has returned (result)
NewOp(op, pc, left) ==
    [op |-> op, early |-> ~ConnectCompleted, pc |-> pc, left |-> left,
     platform |-> IF pc = "fetch" THEN 1 ELSE 0, interrupted |-> FALSE,
     error |-> IF pc = "threw" THEN "not initialized" ELSE "",
     args |-> Args(NoText, NoComponents, 0), sent |-> <<>>, accepted |-> <<>>,
     caught |-> FALSE, result |-> ""]

\* a call of an operation that ends at once (pc "done" or "threw") when
\* this.client is null and else starts with the channel lookup
StartOp(op, whenNull, left, args) ==
    /\ Len(ops) < MaxOps
    /\ ops' = Append(ops, [(IF client = 0 THEN NewOp(op, whenNull, 0)
                            ELSE NewOp(op, "fetch", left)) EXCEPT !.args = args])
    /\ UNCHANGED <<client, clients, handlers, callbacks, now>>
    /\ UNCHANGED <<sanVars, routerVars>>

sendMessage(len) ==
    StartOp("sendMessage", "done", Chunks(len), Args(NoText, NoComponents, len))

sendFile == StartOp("sendFile", "done", 1, Args(NoText, NoComponents, 0))

setTyping(isTyping) ==
    IF isTyping
    THEN StartOp("setTyping", "done", 1, Args(NoText, NoComponents, 0))
    ELSE /\ Len(ops) < MaxOps
         /\ ops' = Append(ops, NewOp("setTyping", "done", 0))
         /\ UNCHANGED <<client, clients, handlers, callbacks, now>>
         /\ UNCHANGED <<sanVars, routerVars>>

sendComponents(text, components) ==
    StartOp("sendComponents", "threw", 1, Args(Given(text), Given(components), 0))

\* text and components are optional
updateComponents(text, components) ==
    StartOp("updateComponents", "threw", 1, Args(text, components, 0))

\* where the channel is in its lifecycle
Stage ==
    IF client = 0 THEN (IF clients = <<>> THEN "new" ELSE "disconnected")
    ELSE IF clients[client].ready THEN "connected" ELSE "connecting"

\* an ownsJid that answers only while the channel is connected
ownsJidWhileConnected(jid) == DiscordIsConnected /\ StartsWith(jid, "dc:")

\* DiscordChannel.ownsJid: jid.startsWith('dc:')
DiscordOwnsJid(jid) == StartsWith(jid, "dc:")

\* a call of ownsJid; the run keeps the address (args.text), the answer
\* (result) and the lifecycle stage of the call (stage)
OwnsJidCall(jid) ==
    /\ Len(ops) < MaxAnswers
    /\ ops' = Append(ops,
           [NewOp("ownsJid", "done", 0) EXCEPT
               !.args = Args(Given(jid), NoComponents, 0),
               !.result = DiscordOwnsJid(jid)] @@ [stage |-> Stage])
    /\ UNCHANGED <<client, clients, handlers, callbacks, now>>
    /\ UNCHANGED <<sanVars, routerVars>>

\* the operations whose body is inside try/catch
Catches(op) == op \in {"sendMessage", "sendFile", "setTyping"}

\* what run o hands to the platform with its next send or edit
Payload(o) ==
    CASE o.op = "sendMessage" -> TextPart(o.args.len, Len(o.sent) + 1)
      [] o.op = "sendFile" -> [files |-> <<"filePath">>]
      [] o.op = "sendComponents" ->
            [content |-> o.args.text.value,
             components |-> BuildRows(o.args.components.value)]
      [] o.op = "updateComponents" -> editPayload(o.args)

\* the identifier the platform gives the message that run i has sent
SentId(i) == "sent_comp_00" \o ToString(i)

\* the settling below with no try/catch around sendMessage and sendFile
PlatformSettledUncaught(i, r) ==
    /\ i \in 1..Len(ops)
    /\ Outstanding(ops[i])
    /\ r = "none" => ops[i].pc = "fetch"
    /\ LET o == ops[i]
           failed == IF o.op = "setTyping" THEN [o EXCEPT !.pc = "done", !.caught = TRUE]
                     ELSE Threw(o, "rejected")
           next(pc) == [o EXCEPT !.pc = pc, !.platform = @ + 1,
                                 !.sent = IF pc \in {"send", "edit"}
                                          THEN Append(@, Payload(o)) ELSE @]
           done == [o EXCEPT !.pc = "done",
                             !.result = IF o.op = "sendComponents" THEN SentId(i) ELSE @]
           after ==
               IF r = "reject" THEN failed
               ELSE IF o.pc = "fetch"
               THEN IF r = "none"
                    THEN IF Catches(o.op) THEN done ELSE Threw(o, "not found")
                    ELSE IF o.op = "setTyping" THEN next("typing")
                    ELSE IF o.op = "updateComponents" THEN next("message")
                    ELSE next("send")
               ELSE IF o.pc = "send" /\ o.left > 1
               THEN [o EXCEPT !.left = @ - 1, !.platform = @ + 1,
                              !.sent = Append(@, Payload(o))]
               ELSE IF o.pc = "message" THEN next("edit")
               ELSE done
       IN  ops' = [ops EXCEPT ![i] =
                      IF r # "reject" /\ o.pc \in {"send", "edit"}
                      THEN [after EXCEPT !.accepted = Append(@, o.sent[Len(o.sent)])]
                      ELSE after]
    /\ UNCHANGED <<client, clients, handlers, callbacks, now>>
    /\ UNCHANGED <<sanVars, routerVars>>

\* the settling with a catch around each send of sendMessage, so that a
\* rejected chunk is skipped and the next one sent
PlatformSettledSkippingRejected(i, r) ==
    /\ i \in 1..Len(ops)
    /\ Outstanding(ops[i])
    /\ r = "none" => ops[i].pc = "fetch"
    /\ LET o == ops[i]
           failed == IF Catches(o.op) THEN [o EXCEPT !.pc = "done", !.caught = TRUE]
                     ELSE Threw(o, "rejected")
           next(pc) == [o EXCEPT !.pc = pc, !.platform = @ + 1,
                                 !.sent = IF pc \in {"send", "edit"}
                                          THEN Append(@, Payload(o)) ELSE @]
           done == [o EXCEPT !.pc = "done",
                             !.result = IF o.op = "sendComponents" THEN SentId(i) ELSE @]
           after ==
               IF r = "reject" /\ o.pc = "send" /\ o.left > 1
               THEN [o EXCEPT !.left = @ - 1, !.platform = @ + 1,
                              !.sent = Append(@, Payload(o))]
               ELSE IF r = "reject" THEN failed
               ELSE IF o.pc = "fetch"
               THEN IF r = "none"
                    THEN IF Catches(o.op) THEN done ELSE Threw(o, "not found")
                    ELSE IF o.op = "setTyping" THEN next("typing")
                    ELSE IF o.op = "updateComponents" THEN next("message")
                    ELSE next("send")
               ELSE IF o.pc = "send" /\ o.left > 1
               THEN [o EXCEPT !.left = @ - 1, !.platform = @ + 1,
                              !.sent = Append(@, Payload(o))]
               ELSE IF o.pc = "message" THEN next("edit")
               ELSE done
       IN  ops' = [ops EXCEPT ![i] =
                      IF r # "reject" /\ o.pc \in {"send", "edit"}
                      THEN [after EXCEPT !.accepted = Append(@, o.sent[Len(o.sent)])]
                      ELSE after]
    /\ UNCHANGED <<client, clients, handlers, callbacks, now>>
    /\ UNCHANGED <<sanVars, routerVars>>

\* The platform call that run i awaits settles: it resolves (r "ok"; for
\* the channel lookup, with a text channel), the channel lookup resolves
\* with no channel or with one that is not text-based (r "none"), or it
\* rejects (r "reject").
PlatformSettled(i, r) ==
    /\ i \in 1..Len(ops)
    /\ Outstanding(ops[i])
    /\ r = "none" => ops[i].pc = "fetch"
    /\ LET o == ops[i]
           failed == IF Catches(o.op) THEN [o EXCEPT !.pc = "done", !.caught = TRUE]
                     ELSE Threw(o, "rejected")
           next(pc) == [o EXCEPT !.pc = pc, !.platform = @ + 1,
                                 !.sent = IF pc \in {"send", "edit"}
                                          THEN Append(@, Payload(o)) ELSE @]
           done == [o EXCEPT !.pc = "done",
                             !.result = IF o.op = "sendComponents" THEN SentId(i) ELSE @]
           after ==
               IF r = "reject" THEN failed
               ELSE IF o.pc = "fetch"
               THEN IF r = "none"
                    THEN IF Catches(o.op) THEN done ELSE Threw(o, "not found")
                    ELSE IF o.op = "setTyping" THEN next("typing")
                    ELSE IF o.op = "updateComponents" THEN next("message")
                    ELSE next("send")
               ELSE IF o.pc = "send" /\ o.left > 1
               THEN [o EXCEPT !.left = @ - 1, !.platform = @ + 1,
                              !.sent = Append(@, Payload(o))]
               ELSE IF o.pc = "message" THEN next("edit")
               ELSE done
       IN  ops' = [ops EXCEPT ![i] =
                      IF r # "reject" /\ o.pc \in {"send", "edit"}
                      THEN [after EXCEPT !.accepted = Append(@, o.sent[Len(o.sent)])]
                      ELSE after]
    /\ UNCHANGED <<client, clients, handlers, callbacks, now>>
    /\ UNCHANGED <<sanVars, routerVars>>

\* the messages the clients emit
Png == [name |-> "a b.png", contentType |-> "image/png", size |-> 2048]

Huge == [name |-> "huge.bin", contentType |-> "", size |-> 30000000]

Message(bot, channelId, content, mentionsBot, reference, attachments) ==
    [bot |-> bot, channelId |-> channelId, guild |-> channelId = "1",
     content |-> content, mentionsBot |-> mentionsBot, reference |-> reference,
     attachments |-> attachments]

\* human messages in a registered guild channel and in an unregistered
\* direct conversation, replies or not, with attachments or not; bot
\* messages on both addresses, plain ones and replies that mention the bot
\* and carry attachments
InboundMessages ==
    {Message(FALSE, ch, "hi", FALSE, re, at) :
        ch \in {"1", "2"}, re \in BOOLEAN, at \in {<<>>, <<Huge, Png>>}}
    \cup {Message(TRUE, ch, "hi", FALSE, FALSE, <<>>) : ch \in {"1", "2"}}
    \cup {Message(TRUE, ch, MentionToken \o " hi", TRUE, TRUE, <<Huge, Png>>) :
             ch \in {"1", "2"}}

\* attachments of each media type, without a name and a type, of exactly
\* the maximal size, one byte above it, and 25.5 MB
AtMax == [name |-> "max.bin", contentType |-> "application/zip",
          size |-> MAX_ATTACHMENT_DOWNLOAD_SIZE]

JustOver == [name |-> "over.bin", contentType |-> "application/zip",
             size |-> MAX_ATTACHMENT_DOWNLOAD_SIZE + 1]

HalfOver == [name |-> "half.mp4", contentType |-> "video/mp4", size |-> 26738688]

Video == [name |-> "clip.mp4", contentType |-> "video/mp4", size |-> 4096]

Audio == [name |-> "voice.ogg", contentType |-> "audio/ogg", size |-> 512]

Doc == [name |-> "doc.pdf", contentType |-> "application/pdf", size |-> 1024]

NoName == [name |-> "", contentType |-> "", size |-> 0]

AttachmentLists ==
    {<<Huge, Png>>, <<Png, Huge>>, <<AtMax>>, <<JustOver, HalfOver>>, <<Video, Audio>>,
     <<Doc, NoName>>}

\* human messages with attachments on the registered address, with a body
\* and without, and on the unregistered address
AttachmentMessages ==
    {Message(FALSE, "1", "hi", FALSE, FALSE, at) : at \in AttachmentLists}
    \cup {Message(FALSE, "1", "", FALSE, FALSE, <<Audio, JustOver>>),
          Message(FALSE, "2", "hi", FALSE, FALSE, <<Huge, Png>>)}

\* the components the agent asks for: a button with a style, a disabled
\* button without one, a select menu with two options
ButtonApprove ==
    [type |-> "button", custom_id |-> "approve", label |-> "Approve",
     style |-> "success", disabled |-> FALSE]

ButtonReject ==
    [type |-> "button", custom_id |-> "reject", label |-> "Reject",
     style |-> "", disabled |-> TRUE]

SelectPriority ==
    [type |-> "string_select", custom_id |-> "priority", placeholder |-> "Pick one",
     disabled |-> FALSE,
     options |-> <<[label |-> "High", value |-> "high"], [label |-> "Low", value |-> "low"]>>]

ActionRow(components) == [type |-> "action_row", components |-> components]

\* no row, one row of two buttons, a row of two buttons before a row with
\* a select menu
ComponentSets ==
    {<<>>,
     <<ActionRow(<<ButtonApprove, ButtonReject>>)>>,
     <<ActionRow(<<ButtonReject, ButtonApprove>>), ActionRow(<<SelectPriority>>)>>}

\* the optional arguments of updateComponents: no text, the empty text;
\* no component set, the empty set, two rows
UpdateTexts == {NoText, Given("")}

UpdateComponentSets ==
    {NoComponents, Given(<<>>),
     Given(<<ActionRow(<<SelectPriority>>), ActionRow(<<ButtonApprove>>)>>)}

\* the lengths of the texts sendMessage splits: around one and two chunks
ChunkedLengths ==
    {0, 1, MAX_LENGTH, MAX_LENGTH + 1, 2 * MAX_LENGTH, 2 * MAX_LENGTH + 1}

\* the interactions the clients emit: buttons with and without a label,
\* select menus with no, one and two values, one of them holding a quote and
\* a backslash, a modal submission; from a guild member, from a user with a
\* display name and from a user with a name only
Interaction(kind, channelId, customId, label, values, who) ==
    [kind |-> kind, channelId |-> channelId, customId |-> customId,
     label |-> [defined |-> label # "", value |-> label],
     values |-> values,
     member |-> [defined |-> who = "member", displayName |-> "Alice"],
     user |-> [displayName |-> IF who = "user" THEN "Al" ELSE "", username |-> "alice99"],
     messageId |-> "comp_msg_001"]

SelectedValues == {<<>>, <<"high">>, <<"high", "urgent">>, <<"a\"b\\c">>}

InboundInteractions ==
    {Interaction("button", ch, "approve", label, <<>>, who) :
        ch \in {"1", "2"}, label \in {"Approve", ""}, who \in {"member", "user", "name"}}
    \cup {Interaction("select", ch, "priority", "", vs, who) :
        ch \in {"1", "2"}, vs \in SelectedValues, who \in {"member", "name"}}
    \cup {Interaction("modal", ch, "form", "", <<>>, "member") : ch \in {"1", "2"}}

\* human messages whose body is put together from mentions of the bot, the
\* trigger, a word and blanks
ContentPieces == {MentionToken, NickMentionToken, "@andy", "hi", " "}

MentionMessages ==
    {Message(FALSE, ch, Flatten(ps), me, FALSE, <<>>) :
        ch \in {"1", "2"}, ps \in SeqsUpTo(ContentPieces, MaxContentPieces),
        me \in BOOLEAN}

(***************************************************************************)
(* The agent texts the sanitizer is applied to: every concatenation of at  *)
(* most MaxPieces pieces, among them the two markers and the two halves of *)
(* an open marker.                                                         *)
(***************************************************************************)
Pieces == {InternalOpen, InternalClose, "<inter", "nal>", "x", " "}

SanitizeIdle ==
    /\ rawPieces = <<>>
    /\ rawText = ""
    /\ fn = "none"
    /\ outText = ""
    /\ messages = <<>>
    /\ collected = <<>>
    /\ mount = NoRequest
    /\ verdict = NoVerdict

NoOp ==
    [op |-> "none", jid |-> "", text |-> "", outcome |-> "none", callsBefore |-> 0,
     found |-> 0]

RouterIdle ==
    /\ channels = <<>>
    /\ calls = <<>>
    /\ lastOp = NoOp

InitSanitize ==
    /\ rawPieces \in SeqsUpTo(Pieces, MaxPieces)
    /\ rawText = Flatten(rawPieces)
    /\ fn = "none"
    /\ outText = ""
    /\ messages = <<>>
    /\ collected = <<>>
    /\ mount = NoRequest
    /\ verdict = NoVerdict
    /\ RouterIdle
    /\ DiscordNew

StripInternalTagsCall ==
    /\ fn = "none"
    /\ fn' = "stripInternalTags"
    /\ outText' = stripInternalTags(rawText)
    /\ UNCHANGED <<rawPieces, rawText, messages, collected, mount, verdict>>
    /\ UNCHANGED <<routerVars, discordVars>>

FormatOutboundCall ==
    /\ fn = "none"
    /\ fn' = "formatOutbound"
    /\ outText' = formatOutbound(rawText)
    /\ UNCHANGED <<rawPieces, rawText, messages, collected, mount, verdict>>
    /\ UNCHANGED <<routerVars, discordVars>>

NextSanitize ==
    \/ StripInternalTagsCall
    \/ FormatOutboundCall

SpecSanitize == InitSanitize /\ [][NextSanitize]_vars

(***************************************************************************)
(* The messages formatMessages is applied to: messages whose body is a     *)
(* concatenation of at most MaxBodyPieces pieces, among them the four      *)
(* reserved characters and the tail of an entity, alone and next to a      *)
(* plain message.                                                          *)
(***************************************************************************)
XmlPieces == {"&", "<", ">", "\"", "lt;"}

SenderNames == {"Alice", "", "A&B \"<x>\" &amp;"}

CanonicalMessages ==
    {[sender_name |-> n, content |-> Flatten(ps), timestamp |-> MessageTimestamp] :
        n \in SenderNames, ps \in SeqsUpTo(XmlPieces, MaxBodyPieces)}

PlainMessage ==
    [sender_name |-> "Alice", content |-> "hi", timestamp |-> MessageTimestamp]

\* no message, one message, and one message before or after a plain one
MessageLists ==
    {<<>>}
        \cup {<<m>> : m \in CanonicalMessages}
        \cup {<<m, PlainMessage>> : m \in CanonicalMessages}
        \cup {<<PlainMessage, m>> : m \in CanonicalMessages}

InitFormat ==
    /\ messages \in MessageLists
    /\ rawPieces = <<>>
    /\ rawText = ""
    /\ fn = "none"
    /\ outText = ""
    /\ collected = <<>>
    /\ mount = NoRequest
    /\ verdict = NoVerdict
    /\ RouterIdle
    /\ DiscordNew

FormatMessagesCall ==
    /\ fn = "none"
    /\ fn' = "formatMessages"
    /\ outText' = formatMessages(messages)
    /\ UNCHANGED <<rawPieces, rawText, messages, collected, mount, verdict>>
    /\ UNCHANGED <<routerVars, discordVars>>

NextFormat == FormatMessagesCall

SpecFormat == InitFormat /\ [][NextFormat]_vars

(***************************************************************************)
(* The batches collectAttachments is applied to: at most MaxBatch messages *)
(* without an attachment list or with a list of at most two attachments,   *)
(* two of which have the same path.  The collector is applied to the       *)
(* batch, and then to a single message carrying its result.                *)
(***************************************************************************)
FileA == [filename |-> "a.png", path |-> "inbox/1-a.png"]

FileACopy == [filename |-> "copy.png", path |-> "inbox/1-a.png"]

FileB == [filename |-> "b.pdf", path |-> "inbox/2-b.pdf"]

FileC == [filename |-> "c.txt", path |-> "inbox/3-c.txt"]

Files == {FileA, FileACopy, FileB, FileC}

BatchMessages ==
    {[attachments |-> [defined |-> FALSE, list |-> <<>>]]}
        \cup {[attachments |-> [defined |-> TRUE, list |-> l]] :
                 l \in {<<>>} \cup {<<a>> : a \in Files} \cup (Files \X Files)}

InitCollect ==
    /\ messages \in SeqsUpTo(BatchMessages, MaxBatch)
    /\ collected = <<>>
    /\ mount = NoRequest
    /\ verdict = NoVerdict
    /\ rawPieces = <<>>
    /\ rawText = ""
    /\ fn = "none"
    /\ outText = ""
    /\ RouterIdle
    /\ DiscordNew

CollectAttachmentsCall ==
    /\ fn = "none"
    /\ fn' = "collectAttachments"
    /\ collected' = collectAttachments(messages)
    /\ UNCHANGED <<rawPieces, rawText, outText, messages, mount, verdict>>
    /\ UNCHANGED <<routerVars, discordVars>>

\* the collector applied to one message that carries the list it returned
CollectAgainCall ==
    /\ fn = "collectAttachments"
    /\ fn' = "collectAgain"
    /\ messages' = <<[attachments |-> [defined |-> TRUE, list |-> collected]]>>
    /\ collected' = collectAttachments(messages')
    /\ UNCHANGED <<rawPieces, rawText, outText, mount, verdict>>
    /\ UNCHANGED <<routerVars, discordVars>>

NextCollect ==
    \/ CollectAttachmentsCall
    \/ CollectAgainCall

SpecCollect == InitCollect /\ [][NextCollect]_vars

(***************************************************************************)
(* The mount requests the validator is applied to: host paths of at most   *)
(* MaxDepth segments, with or without the home shorthand, among them a     *)
(* sibling of an allowed root that shares its prefix, a denied name and    *)
(* the parent directory; each read/write intent, both trust tiers, and     *)
(* allowlists with a writable root under the home directory and a          *)
(* read-only root outside it.                                              *)
(***************************************************************************)
Segments == {"projects", "projects-evil", ".ssh", "..", "repos", "key.pem"}

Intents ==
    {[defined |-> FALSE, value |-> TRUE], [defined |-> TRUE, value |-> TRUE],
     [defined |-> TRUE, value |-> FALSE]}

AllowedRoots ==
    <<[path |-> Path(TRUE, <<"projects">>), allowReadWrite |-> TRUE],
      [path |-> Path(FALSE, <<"repos">>), allowReadWrite |-> FALSE]>>

Allowlists ==
    {[allowedRoots |-> AllowedRoots, blockedPatterns |-> bs, nonMainReadOnly |-> f] :
        bs \in {<<>>, <<".ssh", "*.pem">>}, f \in BOOLEAN}

MountRequests ==
    {[hostPath |-> Path(tilde, segs), readonly |-> ro, isMain |-> main, allowlist |-> al] :
        tilde \in BOOLEAN, segs \in SeqsUpTo(Segments, MaxDepth), ro \in Intents,
        main \in BOOLEAN, al \in Allowlists}

InitMount ==
    /\ mount \in MountRequests
    /\ verdict = NoVerdict
    /\ rawPieces = <<>>
    /\ rawText = ""
    /\ fn = "none"
    /\ outText = ""
    /\ messages = <<>>
    /\ collected = <<>>
    /\ RouterIdle
    /\ DiscordNew

ValidateMountCall ==
    /\ fn = "none"
    /\ fn' = "validateMount"
    /\ verdict' = validateMount(mount)
    /\ UNCHANGED <<rawPieces, rawText, outText, messages, collected, mount>>
    /\ UNCHANGED <<routerVars, discordVars>>

NextMount == ValidateMountCall

SpecMount == InitMount /\ [][NextMount]_vars

(***************************************************************************)
(* The router under every list of at most MaxChannels channels.            *)
(***************************************************************************)
InitRouter ==
    /\ channels \in SeqsUpTo(ChannelStates, MaxChannels)
    /\ calls = <<>>
    /\ lastOp = NoOp
    /\ SanitizeIdle
    /\ DiscordNew

NextRouter ==
    \/ \E jid \in Jids, text \in AgentTexts : routeOutbound(jid, text)
    \/ \E jid \in Jids, filePath \in FilePaths : routeFile(jid, filePath)
    \/ \E jid \in Jids, raw \in AgentTexts : sendAgentOutput(jid, raw)
    \/ \E jid \in Jids : findChannel(jid)

SpecRouter == InitRouter /\ [][NextRouter]_vars

(***************************************************************************)
(* The Discord channel from its construction on, under every schedule of   *)
(* connect(), disconnect(), the clients' events and the settling of the    *)
(* awaited promises.                                                       *)
(***************************************************************************)
InitDiscord ==
    /\ DiscordNew
    /\ SanitizeIdle
    /\ RouterIdle

NextInbound ==
    \/ connect
    \/ disconnect
    \/ \E c \in 1..Len(clients) : ClientReady(c)
    \/ \E c \in 1..Len(clients), ev \in InboundMessages, inboxOk \in BOOLEAN, t \in now..MaxClock :
          Len(handlers) < MaxEvents /\ MessageCreate(c, ev, inboxOk, t)
    \/ \E id \in 1..Len(handlers), ok \in BOOLEAN, inboxOk \in BOOLEAN, t \in now..MaxClock :
          ReplySettled(id, ok, inboxOk, t)
    \/ \E id \in 1..Len(handlers), ok \in BOOLEAN, t \in now..MaxClock :
          FetchSettled(id, ok, t)

SpecInbound == InitDiscord /\ [][NextInbound]_vars

(***************************************************************************)
(* The Discord channel under every schedule of connect(), disconnect(),    *)
(* the logins, the calls of the send operations and the settling of the    *)
(* platform calls they await.                                              *)
(***************************************************************************)
PlatformResults == {"ok", "none", "reject"}

NextChannel ==
    \/ connect
    \/ disconnect
    \/ \E c \in 1..Len(clients) : ClientReady(c)
    \/ \E c \in 1..Len(clients) : LoginRejected(c)
    \/ \E len \in TextLengths : sendMessage(len)
    \/ sendFile
    \/ \E isTyping \in BOOLEAN : setTyping(isTyping)
    \/ sendComponents("Choose:", <<>>)
    \/ updateComponents(Given("Approved!"), NoComponents)
    \/ \E i \in 1..Len(ops), r \in PlatformResults : PlatformSettled(i, r)

SpecChannel == InitDiscord /\ [][NextChannel]_vars

(***************************************************************************)
(* The sessions of the channel and its plain sends, with the platform      *)
(* answering: every login is answered, and every call a send awaits        *)
(* settles (there is no cancellation; a call completes, fails or times     *)
(* out at the transport level).                                            *)
(***************************************************************************)
LoginSettled(c) == ClientReady(c) \/ LoginRejected(c)

NextSession ==
    \/ connect
    \/ disconnect
    \/ \E c \in 1..Len(clients) : LoginSettled(c)
    \/ sendMessage(MAX_LENGTH + 1)
    \/ sendFile
    \/ \E i \in 1..Len(ops), r \in PlatformResults : PlatformSettled(i, r)

SpecSession ==
    /\ InitDiscord
    /\ [][NextSession]_vars
    /\ \A c \in 1..MaxClients : WF_vars(LoginSettled(c))
    /\ \A i \in 1..MaxOps : WF_vars(\E r \in PlatformResults : PlatformSettled(i, r))

(***************************************************************************)
(* The Discord channel under every schedule of connect(), disconnect(),    *)
(* calls of sendComponents and updateComponents and the settling of the    *)
(* platform calls they await.                                              *)
(***************************************************************************)
NextComponents ==
    \/ connect
    \/ disconnect
    \/ \E c \in 1..Len(clients) : ClientReady(c)
    \/ \E cs \in ComponentSets : sendComponents("Choose:", cs)
    \/ \E text \in UpdateTexts, cs \in UpdateComponentSets : updateComponents(text, cs)
    \/ \E i \in 1..Len(ops), r \in PlatformResults : PlatformSettled(i, r)

SpecComponents == InitDiscord /\ [][NextComponents]_vars

(***************************************************************************)
(* The Discord channel under every schedule of connect(), disconnect(),    *)
(* calls of sendMessage with short and long texts and the settling of the  *)
(* platform calls they await.                                              *)
(***************************************************************************)
NextChunks ==
    \/ connect
    \/ disconnect
    \/ \E c \in 1..Len(clients) : ClientReady(c)
    \/ \E len \in ChunkedLengths : sendMessage(len)
    \/ \E i \in 1..Len(ops), r \in PlatformResults : PlatformSettled(i, r)

SpecChunks == InitDiscord /\ [][NextChunks]_vars

(***************************************************************************)
(* Attachments whose names try to leave the inbox directory: parent        *)
(* directories, an absolute path, backslashes, a bare "..", blanks.        *)
(***************************************************************************)
Traversal == [name |-> "../../etc/passwd", contentType |-> "text/plain", size |-> 10]

Absolute == [name |-> "/etc/shadow", contentType |-> "", size |-> 10]

Backslash == [name |-> "..\\..\\x y.png", contentType |-> "image/png", size |-> 10]

DotDot == [name |-> "..", contentType |-> "", size |-> 10]

HostileLists == {<<Traversal>>, <<Absolute, Backslash>>, <<DotDot, NoName>>}

HostileMessages == {Message(FALSE, "1", "hi", FALSE, FALSE, at) : at \in HostileLists}

NextPaths ==
    \/ connect
    \/ \E c \in 1..Len(clients) : ClientReady(c)
    \/ \E c \in 1..Len(clients), ev \in HostileMessages, t \in now..MaxClock :
          Len(handlers) < MaxEvents /\ MessageCreate(c, ev, TRUE, t)
    \/ \E id \in 1..Len(handlers), ok \in BOOLEAN, t \in now..MaxClock :
          FetchSettled(id, ok, t)

SpecPaths == InitDiscord /\ [][NextPaths]_vars

(***************************************************************************)
(* Human messages on the registered address that mention the agent or      *)
(* not, are replies or not, and carry an attachment or not, received by    *)
(* the client of a channel that is connected once.                         *)
(***************************************************************************)
TriggerMessages ==
    {Message(FALSE, "1", content, me, re, at) :
        content \in {MentionToken \o " hi", "@Andy hi", "hi"},
        me \in BOOLEAN, re \in BOOLEAN, at \in {<<>>, <<Png>>}}

NextTrigger ==
    \/ (clients = <<>> /\ connect)
    \/ disconnect
    \/ \E c \in 1..Len(clients) : ClientReady(c)
    \/ \E c \in 1..Len(clients), ev \in TriggerMessages :
          Len(handlers) < MaxEvents /\ MessageCreate(c, ev, TRUE, now)
    \/ \E id \in 1..Len(handlers), ok \in BOOLEAN : ReplySettled(id, ok, TRUE, now)
    \/ \E id \in 1..Len(handlers), ok \in BOOLEAN : FetchSettled(id, ok, now)

SpecTrigger == InitDiscord /\ [][NextTrigger]_vars

(***************************************************************************)
(* Events whose handler is suspended (a reply, an attachment, a button     *)
(* click) on a channel that is connected again only after a disconnect(),  *)
(* so that no client is ever replaced while it is alive.                   *)
(***************************************************************************)
SuspendingMessages ==
    {Message(FALSE, "1", "hi", FALSE, TRUE, <<>>),
     Message(FALSE, "1", "hi", FALSE, FALSE, <<Png>>),
     Message(FALSE, "2", "hi", FALSE, TRUE, <<>>)}

SuspendingInteractions ==
    {Interaction("button", "1", "approve", "Approve", <<>>, "member")}

NextSuspended ==
    \/ (client = 0 /\ connect)
    \/ disconnect
    \/ \E c \in 1..Len(clients) : ClientReady(c)
    \/ \E c \in 1..Len(clients), ev \in SuspendingMessages :
          Len(handlers) < MaxEvents /\ MessageCreate(c, ev, TRUE, now)
    \/ \E c \in 1..Len(clients), ev \in SuspendingInteractions :
          Len(handlers) < MaxEvents /\ InteractionCreate(c, ev)
    \/ \E id \in 1..Len(handlers), ok \in BOOLEAN : ReplySettled(id, ok, TRUE, now)
    \/ \E id \in 1..Len(handlers), ok \in BOOLEAN : FetchSettled(id, ok, now)
    \/ \E id \in 1..Len(handlers), ok \in BOOLEAN : AckSettled(id, ok)

SpecSuspended == InitDiscord /\ [][NextSuspended]_vars

(***************************************************************************)
(* Up to MaxConcurrent events of one conversation handled at the same      *)
(* time by the client of a channel connected once: a reply, a plain        *)
(* message, and a message with two attachments whose names differ and      *)
(* sanitize to the same name.  Date.now() returns now or a later time.     *)
(***************************************************************************)
Underscored == [name |-> "a_b.png", contentType |-> "image/png", size |-> 2048]

ConcurrentMessages ==
    {Message(FALSE, "1", "first", FALSE, TRUE, <<>>),
     Message(FALSE, "1", "second", FALSE, FALSE, <<>>),
     Message(FALSE, "1", "third", FALSE, FALSE, <<Png, Underscored>>)}

NextConcurrent ==
    \/ (clients = <<>> /\ connect)
    \/ \E c \in 1..Len(clients) : ClientReady(c)
    \/ \E c \in 1..Len(clients), ev \in ConcurrentMessages, t \in now..MaxClock :
          Len(handlers) < MaxConcurrent /\ MessageCreate(c, ev, TRUE, t)
    \/ \E id \in 1..Len(handlers), ok \in BOOLEAN, t \in now..MaxClock :
          ReplySettled(id, ok, TRUE, t)
    \/ \E id \in 1..Len(handlers), ok \in BOOLEAN, t \in now..MaxClock :
          FetchSettled(id, ok, t)

SpecConcurrent == InitDiscord /\ [][NextConcurrent]_vars

(***************************************************************************)
(* A channel whose connect() is called only when no connect() is pending:  *)
(* the first time, after a disconnect(), or after the last connect() has   *)
(* resolved.                                                               *)
(***************************************************************************)
NextReconnect ==
    \/ ((client = 0 \/ ConnectCompleted) /\ connect)
    \/ disconnect
    \/ \E c \in 1..Len(clients) : ClientReady(c)
    \/ \E c \in 1..Len(clients), ev \in InboundMessages :
          Len(handlers) < MaxEvents /\ MessageCreate(c, ev, TRUE, now)
    \/ \E id \in 1..Len(handlers), ok \in BOOLEAN : ReplySettled(id, ok, TRUE, now)
    \/ \E id \in 1..Len(handlers), ok \in BOOLEAN : FetchSettled(id, ok, now)

SpecReconnect == InitDiscord /\ [][NextReconnect]_vars

(***************************************************************************)
(* ownsJid asked at every stage of the lifecycle, with the addresses of    *)
(* the test suite and two more around the prefix.                          *)
(***************************************************************************)
OwnershipJids == {"dc:1234567890123456", "12345@g.us", "tg:123456789", "xdc:1", "dc:"}

NextOwnership ==
    \/ connect
    \/ disconnect
    \/ \E c \in 1..Len(clients) : ClientReady(c)
    \/ \E jid \in OwnershipJids : OwnsJidCall(jid)

SpecOwnership == InitDiscord /\ [][NextOwnership]_vars

NextMention ==
    \/ connect
    \/ disconnect
    \/ \E c \in 1..Len(clients) : ClientReady(c)
    \/ \E c \in 1..Len(clients), ev \in MentionMessages :
          Len(handlers) < MaxEvents /\ MessageCreate(c, ev, TRUE, now)

SpecMention == InitDiscord /\ [][NextMention]_vars

(***************************************************************************)
(* The Discord channel under every schedule of connect(), disconnect(),    *)
(* messages with attachments and the settling of their downloads.  The     *)
(* clock stands still: the time in a file name plays no role here.         *)
(***************************************************************************)
NextAttachments ==
    \/ connect
    \/ disconnect
    \/ \E c \in 1..Len(clients) : ClientReady(c)
    \/ \E c \in 1..Len(clients), ev \in AttachmentMessages, inboxOk \in BOOLEAN :
          Len(handlers) < MaxEvents /\ MessageCreate(c, ev, inboxOk, now)
    \/ \E id \in 1..Len(handlers), ok \in BOOLEAN : FetchSettled(id, ok, now)

SpecAttachments == InitDiscord /\ [][NextAttachments]_vars

(***************************************************************************)
(* The Discord channel under every schedule of connect(), disconnect(),    *)
(* the clients' interactions and the settling of their acknowledgments.    *)
(***************************************************************************)
NextInteraction ==
    \/ connect
    \/ disconnect
    \/ \E c \in 1..Len(clients) : ClientReady(c)
    \/ \E c \in 1..Len(clients), ev \in InboundInteractions :
          Len(handlers) < MaxEvents /\ InteractionCreate(c, ev)
    \/ \E id \in 1..Len(handlers), ok \in BOOLEAN : AckSettled(id, ok)

SpecInteraction == InitDiscord /\ [][NextInteraction]_vars

(***************************************************************************)
(* Properties of the router.  The channel the claims speak of is read off  *)
(* the channel list, independently of the search the router performs.      *)
(***************************************************************************)
Live(k, jid) == jid \in channels[k].owned /\ channels[k].connected

SomeLive(jid) == \E k \in 1..Len(channels) : Live(k, jid)

FirstLive(jid) ==
    CHOOSE k \in 1..Len(channels) : Live(k, jid) /\ \A m \in 1..(k - 1) : ~Live(m, jid)

(***************************************************************************)
(* C1: routeOutbound calls sendMessage exactly once, on the first channel  *)
(* in list order that owns the address and is connected, and on no other.  *)
(***************************************************************************)
RouteOutboundSendsOnceOnFirstLive ==
    (lastOp.op = "routeOutbound" /\ SomeLive(lastOp.jid)) =>
        /\ lastOp.outcome = "forwarded"
        /\ Len(calls) = lastOp.callsBefore + 1
        /\ calls[Len(calls)] =
             Call(FirstLive(lastOp.jid), "sendMessage", lastOp.jid, lastOp.text)

\* the first channel owns the address but is disconnected, the second is live
RouteOutboundSendsOnceWitness ==
    /\ lastOp.op = "routeOutbound"
    /\ lastOp.outcome = "forwarded"
    /\ Len(channels) = 2
    /\ lastOp.jid \in channels[1].owned
    /\ calls[Len(calls)].ch = 2

(***************************************************************************)
(* C2: routeOutbound fails with the no-channel error and invokes no send   *)
(* whenever no channel both owns the address and is connected.             *)
(***************************************************************************)
RouteOutboundFailsWithoutLiveChannel ==
    (lastOp.op = "routeOutbound" /\ ~SomeLive(lastOp.jid)) =>
        /\ lastOp.outcome = "NoChannelForJid"
        /\ Len(calls) = lastOp.callsBefore

\* the only owning channel is disconnected
RouteOutboundFailsWitness ==
    /\ lastOp.op = "routeOutbound"
    /\ lastOp.outcome = "NoChannelForJid"
    /\ Cardinality({k \in 1..Len(channels) : lastOp.jid \in channels[k].owned}) = 1
    /\ \E k \in 1..Len(channels) :
          lastOp.jid \in channels[k].owned /\ ~channels[k].connected

(***************************************************************************)
(* C3: routeFile, when the first owning and connected channel has no       *)
(* sendFile, fails with the capability error and invokes neither sendFile  *)
(* nor sendMessage on any channel.                                         *)
(***************************************************************************)
RouteFileFailsWithoutCapability ==
    (/\ lastOp.op = "routeFile"
     /\ SomeLive(lastOp.jid)
     /\ ~channels[FirstLive(lastOp.jid)].sendFile) =>
        /\ lastOp.outcome = "FileSendingUnsupported"
        /\ Len(calls) = lastOp.callsBefore

\* a later channel is live for the address and could have sent the file
RouteFileFailsWitness ==
    /\ lastOp.op = "routeFile"
    /\ lastOp.outcome = "FileSendingUnsupported"
    /\ Len(channels) = 2
    /\ Live(2, lastOp.jid)
    /\ channels[2].sendFile

(***************************************************************************)
(* C10: when the sanitized form of an agent text is empty, no send is      *)
(* attempted on any channel.                                               *)
(***************************************************************************)
EmptySanitizedTextIsNotSent ==
    (lastOp.op = "sendAgentOutput" /\ stripInternalTags(lastOp.text) = "") =>
        /\ lastOp.outcome = "nothingToSend"
        /\ Len(calls) = lastOp.callsBefore

\* a text that is all internal, with a live channel for the address
EmptySanitizedTextWitness ==
    /\ lastOp.op = "sendAgentOutput"
    /\ lastOp.outcome = "nothingToSend"
    /\ Includes(lastOp.text, InternalOpen)
    /\ SomeLive(lastOp.jid)

(***************************************************************************)
(* Properties of the inbound handler, stated of the callbacks each handler *)
(* run has made.                                                           *)
(***************************************************************************)
CallsOf(id, cb) ==
    {k \in 1..Len(callbacks) : callbacks[k].h = id /\ callbacks[k].cb = cb}

Registered(ev) == ("dc:" \o ev.channelId) \in registeredGroups

\* the handler run has nothing left to await
Finished(id) == handlers[id].pc \in {"done", "threw"}

(***************************************************************************)
(* C4: onMessage is called for a message event only if the event's address *)
(* is a registered group; for an unregistered address the handler reports  *)
(* the metadata and never calls onMessage.                                 *)
(***************************************************************************)
OnMessageOnlyForRegisteredGroups ==
    \A id \in 1..Len(handlers) :
        LET ev == handlers[id].ev
        IN  /\ CallsOf(id, "onMessage") # {} => Registered(ev)
            /\ (~Registered(ev) /\ ~ev.bot /\ Finished(id)) =>
                  /\ Cardinality(CallsOf(id, "onChatMetadata")) = 1
                  /\ CallsOf(id, "onMessage") = {}

\* a human message with attachments on an unregistered address, handled
OnMessageOnlyForRegisteredWitness ==
    \E id \in 1..Len(handlers) :
        /\ ~Registered(handlers[id].ev)
        /\ ~handlers[id].ev.bot
        /\ handlers[id].ev.attachments # <<>>
        /\ Finished(id)
        /\ CallsOf(id, "onChatMetadata") # {}

(***************************************************************************)
(* C5: a message event marked as bot-authored causes neither an            *)
(* onChatMetadata call nor an onMessage call, whatever its address,        *)
(* content, attachments or reply reference.                                *)
(***************************************************************************)
BotMessagesCauseNoCallback ==
    \A id \in 1..Len(handlers) :
        handlers[id].ev.bot =>
            /\ CallsOf(id, "onChatMetadata") = {}
            /\ CallsOf(id, "onMessage") = {}
            /\ Finished(id)

\* a bot's reply with attachments and a mention of the agent, in a
\* registered group, handled
BotMessagesCauseNoCallbackWitness ==
    \E id \in 1..Len(handlers) :
        /\ handlers[id].ev.bot
        /\ Registered(handlers[id].ev)
        /\ handlers[id].ev.reference
        /\ handlers[id].ev.mentionsBot
        /\ handlers[id].ev.attachments # <<>>
        /\ Finished(id)

(***************************************************************************)
(* C6: for every message event that is not bot-authored the handler        *)
(* reports the metadata (address, timestamp, label) exactly once, whether  *)
(* the address is registered or not and whether the reply lookup succeeds  *)
(* or not: never before the lookup has settled, once from then on, and     *)
(* before any onMessage call for the event.                                *)
(***************************************************************************)
MetadataOnceBeforeMessage ==
    \A id \in 1..Len(handlers) :
        LET ev == handlers[id].ev
            metas == CallsOf(id, "onChatMetadata")
        IN  ~ev.bot =>
              /\ Cardinality(metas) = IF handlers[id].pc = "reply" THEN 0 ELSE 1
              /\ \A k \in metas :
                    /\ callbacks[k].jid = "dc:" \o ev.channelId
                    /\ callbacks[k].timestamp = MessageTimestamp
                    /\ callbacks[k].name = IF ev.guild THEN "Srv #general" ELSE SenderName
              /\ \A m \in CallsOf(id, "onMessage") : \E k \in metas : k < m

\* a reply whose lookup failed, on a registered address, delivered
MetadataOnceBeforeMessageWitness ==
    \E id \in 1..Len(handlers) :
        /\ handlers[id].ev.reference
        /\ handlers[id].pc = "done"
        /\ ~StartsWith(handlers[id].content, "[Reply to")
        /\ CallsOf(id, "onMessage") # {}

(***************************************************************************)
(* The body the mention translation is expected to deliver, read off the   *)
(* event.                                                                  *)
(***************************************************************************)
\* the positions of s covered by an occurrence of pat
Covered(s, pat) ==
    {k \in 1..Len(s) : \E i \in 1..Len(s) : OccursAt(s, pat, i) /\ k \in i..(i + Len(pat) - 1)}

RECURSIVE Keep(_, _, _)
Keep(s, drop, k) ==
    IF k > Len(s) THEN ""
    ELSE (IF k \in drop THEN "" ELSE CharAt(s, k)) \o Keep(s, drop, k + 1)

\* the body without any occurrence of a mention token
WithoutMentions(s) ==
    Keep(s, Covered(s, "<@" \o BotId \o ">") \cup Covered(s, "<@!" \o BotId \o ">"), 1)

MentionsAgent(ev) ==
    \/ ev.mentionsBot
    \/ Covered(ev.content, "<@" \o BotId \o ">") # {}
    \/ Covered(ev.content, "<@!" \o BotId \o ">") # {}

ExpectedBody(ev) ==
    LET stripped == Trim(WithoutMentions(ev.content))
    IN  IF ~MentionsAgent(ev) THEN ev.content
        ELSE IF TRIGGER_PATTERN(stripped) THEN stripped
        ELSE "@" \o ASSISTANT_NAME \o " " \o stripped

(***************************************************************************)
(* C7: when a message mentions the agent, every occurrence of the mention  *)
(* token (<@botId> and <@!botId>) is stripped from the body and the        *)
(* trigger phrase is prepended if and only if the stripped body does not   *)
(* already match the trigger pattern; when the agent is not mentioned the  *)
(* body is left unchanged.  Stated of the body delivered for a message     *)
(* that is no reply and has no attachment.                                 *)
(***************************************************************************)
MentionIsTranslated ==
    \A k \in 1..Len(callbacks) :
        LET ev == handlers[callbacks[k].h].ev
        IN  (callbacks[k].cb = "onMessage" /\ ~ev.reference /\ ev.attachments = <<>>) =>
                callbacks[k].msg.content = ExpectedBody(ev)

(***************************************************************************)
(* Properties of the sanitizer.                                            *)
(***************************************************************************)
HasInternalSpan(s) ==
    \E i \in 1..Len(s) :
        /\ OccursAt(s, InternalOpen, i)
        /\ IndexOf(s, InternalClose, i + Len(InternalOpen)) # 0

\* The spans of the text matched from the left, shortest first: kept is the
\* text outside them, cuts the offsets of kept at which a span was taken out
\* (offset c lies between the characters c and c + 1 of kept).
RECURSIVE MatchedSpans(_)
MatchedSpans(s) ==
    LET i == IndexOf(s, InternalOpen, 1)
        j == IndexOf(s, InternalClose, i + Len(InternalOpen))
        rest == MatchedSpans(SubSeq(s, j + Len(InternalClose), Len(s)))
    IN  IF i = 0 \/ j = 0
        THEN [kept |-> s, cuts |-> {}]
        ELSE [kept |-> SubSeq(s, 1, i - 1) \o rest.kept,
              cuts |-> {i - 1} \cup {(i - 1) + c : c \in rest.cuts}]

LeadingBlanks(s) == Len(s) - Len(TrimStart(s))

(***************************************************************************)
(* C8: for any agent text, the output of stripInternalTags and of          *)
(* formatOutbound contains no span that starts with the internal open      *)
(* marker and ends with a later internal close marker.                     *)
(***************************************************************************)
OutputHasNoInternalSpan == fn # "none" => ~HasInternalSpan(outText)

(***************************************************************************)
(* C8, amended: for any agent text, every span matched from the left,      *)
(* shortest first, has been removed from the output of stripInternalTags   *)
(* and of formatOutbound; an open marker followed by a close marker is     *)
(* left in the output only where the open marker is spelled by the text on *)
(* the two sides of a removed span.                                        *)
(***************************************************************************)
OutputSpansOnlyWhereJoined ==
    fn # "none" =>
        LET m == MatchedSpans(rawText)
            lead == LeadingBlanks(m.kept)
        IN  \A q \in 1..Len(outText) :
                (/\ OccursAt(outText, InternalOpen, q)
                 /\ IndexOf(outText, InternalClose, q + Len(InternalOpen)) # 0) =>
                    \E c \in m.cuts :
                        q + lead =< c /\ c =< q + lead + Len(InternalOpen) - 2

\* blanks, then a span taken out of the middle of an open marker, then a
\* close marker: the output holds the span the joined halves spell
OutputSpansOnlyWhereJoinedWitness ==
    /\ fn = "formatOutbound"
    /\ MatchedSpans(rawText).cuts # {}
    /\ LeadingBlanks(MatchedSpans(rawText).kept) > 0
    /\ HasInternalSpan(outText)

(***************************************************************************)
(* The text read piece by piece, independently of the scan of the code.    *)
(***************************************************************************)
Occurrences(s, pat) == Cardinality({k \in 1..Len(s) : OccursAt(s, pat, k)})

CountPieces(ps, p) == Cardinality({k \in 1..Len(ps) : ps[k] = p})

\* the markers pair up as open, close, open, close, ...
RECURSIVE BlocksPairUp(_, _)
BlocksPairUp(ps, inside) ==
    IF ps = <<>> THEN ~inside
    ELSE IF Head(ps) = InternalOpen THEN ~inside /\ BlocksPairUp(Tail(ps), TRUE)
    ELSE IF Head(ps) = InternalClose THEN inside /\ BlocksPairUp(Tail(ps), FALSE)
    ELSE BlocksPairUp(Tail(ps), inside)

\* the pieces outside the blocks
RECURSIVE VisiblePieces(_, _)
VisiblePieces(ps, inside) ==
    IF ps = <<>> THEN <<>>
    ELSE IF Head(ps) = InternalOpen THEN VisiblePieces(Tail(ps), TRUE)
    ELSE IF Head(ps) = InternalClose THEN VisiblePieces(Tail(ps), FALSE)
    ELSE IF inside THEN VisiblePieces(Tail(ps), inside)
    ELSE <<Head(ps)>> \o VisiblePieces(Tail(ps), inside)

\* well-formed and non-nested: the markers pair up and the text holds no
\* marker besides the marker pieces (none is spelled by neighbouring pieces)
WellFormedBlocks(ps) ==
    /\ BlocksPairUp(ps, FALSE)
    /\ Occurrences(Flatten(ps), InternalOpen) = CountPieces(ps, InternalOpen)
    /\ Occurrences(Flatten(ps), InternalClose) = CountPieces(ps, InternalClose)

(***************************************************************************)
(* C9: for a text made of well-formed, non-nested internal blocks          *)
(* interleaved with visible text, stripInternalTags returns exactly the    *)
(* visible text, in order, trimmed; an all-internal text yields "".        *)
(***************************************************************************)
StripYieldsVisibleText ==
    (fn = "stripInternalTags" /\ WellFormedBlocks(rawPieces)) =>
        /\ outText = Trim(Flatten(VisiblePieces(rawPieces, FALSE)))
        /\ (VisiblePieces(rawPieces, FALSE) = <<>> => outText = "")

\* two blocks with visible text between them and blanks around, stripped
StripYieldsVisibleTextWitness ==
    /\ fn = "stripInternalTags"
    /\ WellFormedBlocks(rawPieces)
    /\ CountPieces(rawPieces, InternalOpen) = 2
    /\ outText = "x"
    /\ rawText # outText

(***************************************************************************)
(* The envelope read back, independently of the formatter: the text is     *)
(* taken apart at the markup of the envelope and the entities of each      *)
(* field are decoded.                                                      *)
(***************************************************************************)
XmlEntities == {<<"&amp;", "&">>, <<"&lt;", "<">>, <<"&gt;", ">">>, <<"&quot;", "\"">>}

EntityAt(s, i) == {e \in XmlEntities : OccursAt(s, e[1], i)}

\* no reserved character in s but the ampersand that starts an entity
WellEscaped(s) ==
    \A i \in 1..Len(s) :
        /\ CharAt(s, i) \notin {"<", ">", "\""}
        /\ CharAt(s, i) = "&" => EntityAt(s, i) # {}

RECURSIVE DecodeXml(_)
DecodeXml(s) ==
    IF s = "" THEN ""
    ELSE IF EntityAt(s, 1) # {}
    THEN LET e == CHOOSE x \in EntityAt(s, 1) : TRUE
         IN  e[2] \o DecodeXml(SubSeq(s, Len(e[1]) + 1, Len(s)))
    ELSE CharAt(s, 1) \o DecodeXml(SubSeq(s, 2, Len(s)))

\* the message lines of an envelope: the sender attribute ends at the first
\* quote, the body at the first <
RECURSIVE ParseLines(_)
ParseLines(s) ==
    IF s = "" THEN <<>>
    ELSE LET open == "<message sender=\""
             mid == "\" time=\""
             close == "</message>"
             a == Len(open) + 1
             q == IndexOf(s, "\"", a)
             q2 == IndexOf(s, "\"", q + Len(mid))
             b == q2 + 2
             lt == IndexOf(s, "<", b)
             next == lt + Len(close)
             ok == /\ OccursAt(s, open, 1)
                   /\ q # 0
                   /\ OccursAt(s, mid, q)
                   /\ q2 # 0
                   /\ OccursAt(s, "\">", q2)
                   /\ lt # 0
                   /\ OccursAt(s, close, lt)
                   /\ (next > Len(s) \/ CharAt(s, next) = "\n")
         IN  IF ~ok
             THEN <<[ok |-> FALSE, sender |-> "", body |-> ""]>>
             ELSE <<[ok |-> TRUE, sender |-> SubSeq(s, a, q - 1),
                     body |-> SubSeq(s, b, lt - 1)]>>
                  \o ParseLines(SubSeq(s, next + 1, Len(s)))

ParseEnvelope(s) ==
    LET head == "<messages>\n"
        foot == "\n</messages>"
    IN  IF /\ Len(s) >= Len(head) + Len(foot)
           /\ OccursAt(s, head, 1)
           /\ OccursAt(s, foot, Len(s) - Len(foot) + 1)
        THEN ParseLines(SubSeq(s, Len(head) + 1, Len(s) - Len(foot)))
        ELSE <<[ok |-> FALSE, sender |-> "", body |-> ""]>>

(***************************************************************************)
(* C11: the output of formatMessages holds no unescaped &, <, > or " that  *)
(* comes from a sender name or a body: read back, the envelope has one     *)
(* line per message, each field holds no reserved character but the & of   *)
(* an entity, and decoding the entities once gives back the sender name    *)
(* and the body, an & of the input included.                               *)
(***************************************************************************)
FormatMessagesEscapes ==
    fn = "formatMessages" =>
        LET lines == ParseEnvelope(outText)
        IN  /\ Len(lines) = Len(messages)
            /\ \A k \in 1..Len(lines) :
                  /\ lines[k].ok
                  /\ WellEscaped(lines[k].sender)
                  /\ WellEscaped(lines[k].body)
                  /\ DecodeXml(lines[k].sender) = messages[k].sender_name
                  /\ DecodeXml(lines[k].body) = messages[k].content

\* a sender name with the four characters and an entity, a body that spells
\* an entity, and a second message after it
FormatMessagesEscapesWitness ==
    /\ fn = "formatMessages"
    /\ Len(messages) = 2
    /\ messages[1].sender_name = "A&B \"<x>\" &amp;"
    /\ messages[1].content = "&lt;"
    /\ Includes(outText, "&amp;lt;")

(***************************************************************************)
(* Properties of the lifecycle of the channel.                             *)
(***************************************************************************)
\* the connect() that made client c resolves in this step
ConnectResolves(c) ==
    /\ c \in 1..Len(clients)
    /\ clients[c].promise = "pending"
    /\ clients'[c].promise = "resolved"

LifecycleStates ==
    /\ clients = <<>> => ~DiscordIsConnected
    /\ client = 0 => ~DiscordIsConnected
    /\ (client # 0 /\ clients[client].promise = "pending") => ~DiscordIsConnected
    /\ (client # 0 /\ clients[client].promise = "resolved") => DiscordIsConnected

(***************************************************************************)
(* C12: isConnected() is false before the first connect(), false while the *)
(* connect() that made the current client is pending, true once it has     *)
(* resolved and false after disconnect(); and no connect() resolves while  *)
(* isConnected() returns false.                                            *)
(***************************************************************************)
IsConnectedReflectsLifecycle ==
    /\ []LifecycleStates
    /\ [][\A c \in 1..MaxClients : ConnectResolves(c) => DiscordIsConnected']_vars

(***************************************************************************)
(* C13: every connect() call eventually completes: its promise resolves or *)
(* rejects, whatever the platform answers to the login.  A connect() whose *)
(* client a disconnect() destroys while it is pending is left aside:       *)
(* callers keep disconnect() from running concurrently with connect().     *)
(***************************************************************************)
ConnectEventuallyCompletes ==
    \A c \in 1..MaxClients :
        (c =< Len(clients) /\ clients[c].promise = "pending")
            ~> (c =< Len(clients)
                /\ (clients[c].promise # "pending" \/ clients[c].destroyed))

(***************************************************************************)
(* Properties of the send operations.                                      *)
(***************************************************************************)
SendOps == {"sendMessage", "sendFile", "sendComponents", "updateComponents"}

(***************************************************************************)
(* C14: an operation called before connect() has completed is a no-op: it  *)
(* never throws and makes no platform call.                                *)
(***************************************************************************)
EarlyOperationIsNoOp ==
    \A i \in 1..Len(ops) :
        ops[i].early => (ops[i].pc = "done" /\ ops[i].platform = 0)

(***************************************************************************)
(* C15: a rejection of the platform during sendMessage, sendFile,          *)
(* sendComponents or updateComponents never reaches the caller.            *)
(***************************************************************************)
SendRejectionIsSwallowed ==
    \A i \in 1..Len(ops) :
        ops[i].op \in SendOps => ~(ops[i].pc = "threw" /\ ops[i].error = "rejected")

(***************************************************************************)
(* C16: when disconnect() is called while a sendMessage or a sendFile is   *)
(* outstanding, the send never throws and does complete, and every         *)
(* disconnect() leaves isConnected() false.                                *)
(***************************************************************************)
SendsSurviveDisconnect ==
    /\ [](\A i \in 1..Len(ops) :
            ops[i].op \in {"sendMessage", "sendFile"} => ops[i].pc # "threw")
    /\ [][disconnect => ~DiscordIsConnected']_vars
    /\ \A i \in 1..MaxOps :
          (i =< Len(ops) /\ ops[i].interrupted) ~> (i =< Len(ops) /\ ops[i].pc = "done")

\* a text of two chunks whose client was destroyed after the channel
\* lookup had been started, with both chunks sent after that
SendsSurviveDisconnectWitness ==
    \E i \in 1..Len(ops) :
        /\ ops[i].op = "sendMessage"
        /\ ops[i].interrupted
        /\ ops[i].pc = "done"
        /\ ops[i].platform = 3
        /\ ~DiscordIsConnected

(***************************************************************************)
(* C17: disconnect() on a channel that was never connected or is already   *)
(* disconnected changes nothing, and every disconnect() leaves the channel *)
(* without a client, so that a second call changes nothing.                *)
(***************************************************************************)
DisconnectIsIdempotent ==
    [][disconnect => (client' = 0 /\ (client = 0 => UNCHANGED vars))]_vars

\* a channel that was connected and has been disconnected
DisconnectIsIdempotentWitness ==
    /\ client = 0
    /\ \E c \in 1..Len(clients) : clients[c].destroyed /\ clients[c].promise = "resolved"
    /\ \E i \in 1..Len(ops) : ops[i].interrupted


(***************************************************************************)
(* Interactions.                                                           *)
(***************************************************************************)
\* the acting user as the platform shows them
ActingUser(ev) ==
    IF ev.member.defined THEN "Alice"
    ELSE IF ev.user.displayName = "" THEN "alice99" ELSE "Al"

\* the chosen values as the documented description shows them
ChosenValues(vs) ==
    CASE vs = <<>> -> "[]"
      [] vs = <<"high">> -> "[\"high\"]"
      [] vs = <<"high", "urgent">> -> "[\"high\",\"urgent\"]"
      [] vs = <<"a\"b\\c">> -> "[\"a\\\"b\\\\c\"]"

\* the documented description of an interaction
Description(ev) ==
    IF ev.kind = "button"
    THEN "[Button: approve \"" \o (IF ev.label.defined THEN "Approve" ELSE "approve")
         \o "\" by " \o ActingUser(ev) \o " on message comp_msg_001]"
    ELSE "[Select: priority values=" \o ChosenValues(ev.values)
         \o " by " \o ActingUser(ev) \o " on message comp_msg_001]"

\* C18: a button or select interaction is acknowledged before anything
\* else: deferUpdate() has been called for every such interaction, and no
\* message is delivered while the acknowledgment is pending.  An
\* acknowledged interaction on an unregistered conversation produces no
\* canonical message; on a registered conversation it produces exactly one,
\* whose body is the trigger phrase followed by the documented description.
\* Nothing but a button or a select produces a message.
InteractionDeliveredOnce ==
    \A id \in 1..Len(handlers) :
        LET h == handlers[id]
            sent == CallsOf(id, "onMessage")
        IN  /\ CallsOf(id, "onChatMetadata") = {}
            /\ h.ev.kind \in {"button", "select"} => h.acked
            /\ h.pc # "done" => sent = {}
            /\ h.pc = "done" =>
                  IF h.acked /\ ChatJid(h.ev) \in registeredGroups
                  THEN /\ Cardinality(sent) = 1
                       /\ \A k \in sent :
                             /\ callbacks[k].jid = ChatJid(h.ev)
                             /\ callbacks[k].msg.content = "@Andy " \o Description(h.ev)
                  ELSE sent = {}

\* an acknowledged select on the registered conversation has been delivered
\* with its two values
InteractionDeliveredOnceWitness ==
    \E id \in 1..Len(handlers) :
        /\ handlers[id].pc = "done"
        /\ handlers[id].acked
        /\ handlers[id].ev.kind = "select"
        /\ ChatJid(handlers[id].ev) \in registeredGroups
        /\ \E k \in CallsOf(id, "onMessage") :
              callbacks[k].msg.content =
                 "@Andy [Select: priority values=[\"high\",\"urgent\"] by Alice on message comp_msg_001]"


(***************************************************************************)
(* Attachments.                                                            *)
(***************************************************************************)
\* the attachments of a message above the configured maximum
TooLarge(ev) ==
    {k \in 1..Len(ev.attachments) : ev.attachments[k].size > MAX_ATTACHMENT_DOWNLOAD_SIZE}

\* the placeholder of an attachment above the maximum of 25 MB
TooLargeText(att) ==
    CASE att = Huge -> "[File too large: huge.bin (29MB, max 25MB)]"
      [] att = JustOver -> "[File too large: over.bin (25MB, max 25MB)]"
      [] att = HalfOver -> "[File too large: half.mp4 (26MB, max 25MB)]"

\* the lines of a message body
RECURSIVE BodyLines(_)
BodyLines(s) ==
    LET nl == IndexOf(s, "\n", 1)
    IN  IF nl = 0 THEN <<s>>
        ELSE <<SubSeq(s, 1, nl - 1)>> \o BodyLines(SubSeq(s, nl + 1, Len(s)))

\* the line of the k-th attachment in the body delivered for the event
AttachmentLine(ev, content, k) ==
    LET lines == BodyLines(content)
    IN  lines[Len(lines) - Len(ev.attachments) + k]

FileNames(list) == {list[j].filename : j \in 1..Len(list)}

\* C19: an attachment whose size exceeds the maximum is never fetched: no
\* handler ever awaits its download.  The message delivered carries, at the
\* attachment's place, the "file too large" placeholder with the size
\* rounded to megabytes, and its attachment list does not hold the
\* attachment.
TooLargeIsNeverFetched ==
    \A id \in 1..Len(handlers) :
        LET h == handlers[id]
        IN  /\ h.pc = "fetch" => h.att \notin TooLarge(h.ev)
            /\ \A k \in CallsOf(id, "onMessage"), a \in TooLarge(h.ev) :
                  /\ AttachmentLine(h.ev, callbacks[k].msg.content, a)
                        = TooLargeText(h.ev.attachments[a])
                  /\ h.ev.attachments[a].name
                        \notin FileNames(callbacks[k].msg.attachments.list)

\* a message with two attachments above the maximum was delivered with
\* two placeholders and an undefined attachment list
TooLargeIsNeverFetchedWitness ==
    \E id \in 1..Len(handlers) :
        /\ handlers[id].ev.attachments = <<JustOver, HalfOver>>
        /\ \E k \in CallsOf(id, "onMessage") :
              /\ ~callbacks[k].msg.attachments.defined
              /\ callbacks[k].msg.content =
                    "hi\n[File too large: over.bin (25MB, max 25MB)]\n[File too large: half.mp4 (26MB, max 25MB)]"

\* the placeholder of an attachment whose download failed
FailedText(att) ==
    CASE att = Png -> "[Image: a b.png]"
      [] att = Video -> "[Video: clip.mp4]"
      [] att = Audio -> "[Audio: voice.ogg]"
      [] att = Doc -> "[File: doc.pdf]"
      [] att = AtMax -> "[File: max.bin]"
      [] att = NoName -> "[File: file]"

\* C20: a failed fetch or write of an attachment never aborts the message:
\* a handler with a failed download does not end by throwing, and when the
\* handler of a non-bot event on a registered conversation is done, onMessage
\* has been called exactly once (never more at any time).  The body holds,
\* at the place of each failed attachment, the placeholder of its media
\* type with the display name only, and the attachment list does not hold
\* the failed attachment.
FailedDownloadKeepsDelivery ==
    \A id \in 1..Len(handlers) :
        LET h == handlers[id]
            sent == CallsOf(id, "onMessage")
        IN  /\ h.failed # {} => h.pc # "threw"
            /\ Cardinality(sent) =< 1
            /\ (h.pc = "done" /\ ~h.ev.bot /\ Registered(h.ev)) => Cardinality(sent) = 1
            /\ \A k \in sent, a \in h.failed :
                  /\ AttachmentLine(h.ev, callbacks[k].msg.content, a)
                        = FailedText(h.ev.attachments[a])
                  /\ AttName(h.ev.attachments[a])
                        \notin FileNames(callbacks[k].msg.attachments.list)

\* a message whose video and audio both failed to download was delivered
\* with an undefined attachment list
FailedDownloadKeepsDeliveryWitness ==
    \E id \in 1..Len(handlers) :
        /\ handlers[id].failed = {1, 2}
        /\ handlers[id].ev.attachments = <<Video, Audio>>
        /\ \E k \in CallsOf(id, "onMessage") :
              /\ ~callbacks[k].msg.attachments.defined
              /\ callbacks[k].msg.content = "hi\n[Video: clip.mp4]\n[Audio: voice.ogg]"


\* the reference line of an attachment downloaded at clock reading 0
ReferenceText(att) ==
    CASE att = Png -> "[Image: a b.png -> inbox/0-a_b.png]"
      [] att = Video -> "[File: clip.mp4 -> inbox/0-clip.mp4]"
      [] att = Audio -> "[File: voice.ogg -> inbox/0-voice.ogg]"
      [] att = Doc -> "[File: doc.pdf -> inbox/0-doc.pdf]"
      [] att = AtMax -> "[File: max.bin -> inbox/0-max.bin]"
      [] att = NoName -> "[File: file -> inbox/0-file]"

\* the line the k-th attachment of a handler run is due
ExpectedLine(h, k) ==
    IF k \in TooLarge(h.ev) THEN TooLargeText(h.ev.attachments[k])
    ELSE IF k \in h.failed THEN FailedText(h.ev.attachments[k])
    ELSE ReferenceText(h.ev.attachments[k])

\* the attachments of a handler run that were persisted, from the k-th on
RECURSIVE PersistedFrom(_, _)
PersistedFrom(h, k) ==
    IF k > Len(h.ev.attachments) THEN <<>>
    ELSE (IF k \in TooLarge(h.ev) \cup h.failed THEN <<>> ELSE <<h.ev.attachments[k]>>)
         \o PersistedFrom(h, k + 1)

\* C21: the body of a delivered message with attachments is the original
\* text followed by exactly one line per attachment, in encounter order: the
\* reference line of a persisted attachment, the placeholder of a failed or
\* too large one.  The attachment list holds exactly the persisted
\* attachments in encounter order and is absent when there is none.
OneLinePerAttachmentInOrder ==
    \A id \in 1..Len(handlers) :
        \A c \in CallsOf(id, "onMessage") :
            LET h == handlers[id]
                n == Len(h.ev.attachments)
                lines == BodyLines(callbacks[c].msg.content)
                text == IF h.ev.content = "" THEN <<>> ELSE <<h.ev.content>>
                kept == PersistedFrom(h, 1)
                list == callbacks[c].msg.attachments.list
            IN  /\ lines = text \o [k \in 1..n |-> ExpectedLine(h, k)]
                /\ callbacks[c].msg.attachments.defined = (Len(kept) > 0)
                /\ Len(list) = Len(kept)
                /\ \A j \in 1..Len(list) :
                      /\ list[j].filename = AttName(kept[j])
                      /\ ("[" \o (IF list[j].isImage THEN "Image: " ELSE "File: ")
                            \o list[j].filename \o " -> " \o list[j].path \o "]")
                            = ReferenceText(kept[j])

\* a message with two downloaded attachments was delivered
OneLinePerAttachmentInOrderWitness ==
    \E id \in 1..Len(handlers) :
        /\ handlers[id].ev.attachments = <<Video, Audio>>
        /\ \E c \in CallsOf(id, "onMessage") :
              /\ callbacks[c].msg.content =
                    "hi\n[File: clip.mp4 -> inbox/0-clip.mp4]\n[File: voice.ogg -> inbox/0-voice.ogg]"
              /\ Len(callbacks[c].msg.attachments.list) = 2
              /\ callbacks[c].msg.attachments.list[1].filename = "clip.mp4"


(***************************************************************************)
(* Replies.                                                                *)
(***************************************************************************)
\* C22: the body delivered for a reply whose replied-to message was
\* resolved starts with the marker "[Reply to <author>] ".  When the
\* resolution failed the marker is omitted and the run goes on as that of a
\* message that is no reply: the same first line, one line per attachment
\* after it, the chat metadata reported once, the message delivered exactly
\* once on a registered conversation and never on another, and no abort but
\* the one a message with attachments can meet when its inbox directory
\* cannot be made.
ReplyMarkerIsBestEffort ==
    \A id \in 1..Len(handlers) :
        LET h == handlers[id]
            sent == CallsOf(id, "onMessage")
        IN  ~h.ev.bot =>
              /\ h.reply = "pending" <=> h.pc = "reply"
              /\ h.reply = "none" <=> ~h.ev.reference
              /\ h.pc = "reply" => sent = {} /\ CallsOf(id, "onChatMetadata") = {}
              /\ \A c \in sent :
                    LET lines == BodyLines(callbacks[c].msg.content)
                    IN  /\ lines[1] = IF h.reply = "resolved"
                                      THEN "[Reply to Bob] hi" ELSE "hi"
                        /\ Len(lines) = 1 + Len(h.ev.attachments)
              /\ h.pc \in {"done", "fetch", "threw"} =>
                    Cardinality(CallsOf(id, "onChatMetadata")) = 1
              /\ h.pc = "done" =>
                    Cardinality(sent) = IF Registered(h.ev) THEN 1 ELSE 0
              /\ h.pc = "threw" => Len(h.ev.attachments) > 0 /\ Registered(h.ev)

\* a reply whose replied-to message could not be fetched was delivered
\* without the marker
ReplyMarkerIsBestEffortWitness ==
    \E id \in 1..Len(handlers) :
        /\ handlers[id].reply = "failed"
        /\ handlers[id].pc = "done"
        /\ \E c \in CallsOf(id, "onMessage") : callbacks[c].msg.content = "hi"


(***************************************************************************)
(* The order of the downloads.                                             *)
(***************************************************************************)
\* the attachments of a handler run that were persisted
Persisted(h) ==
    {k \in 1..Len(h.ev.attachments) :
        \E j \in 1..Len(h.downloaded) : h.downloaded[j].filename = AttName(h.ev.attachments[k])}

\* C23: in the handling of one event at most one download is in flight at
\* any moment, and while the download of an attachment is in flight every
\* attachment before it has its line in the body, being persisted, failed
\* or too large, and no attachment from it on has been persisted or has
\* failed.
DownloadsOneAtATime ==
    \A id \in 1..Len(handlers) :
        LET h == handlers[id]
        IN  /\ Cardinality(h.fetching) =< 1
            /\ h.pc = "fetch" <=> h.fetching # {}
            /\ \A k \in h.fetching :
                  /\ Len(h.descriptions) = k - 1
                  /\ \A j \in 1..Len(h.ev.attachments) :
                        IF j < k
                        THEN j \in Persisted(h) \cup h.failed \cup TooLarge(h.ev)
                        ELSE j \notin Persisted(h) \cup h.failed

\* the download of a second attachment is in flight after the first one
\* has failed
DownloadsOneAtATimeWitness ==
    \E id \in 1..Len(handlers) :
        /\ handlers[id].fetching = {2}
        /\ handlers[id].failed = {1}


(***************************************************************************)
(* The attachment collector.                                               *)
(***************************************************************************)
\* the place of the first attachment with path p in a list
FirstWithPath(list, p) == Min({k \in 1..Len(list) : list[k].path = p})

PathsOf(list) == {list[k].path : k \in 1..Len(list)}

DistinctPaths(list) ==
    \A i, j \in 1..Len(list) : list[i].path = list[j].path => i = j

\* C24: the list collectAttachments returns for a batch has exactly one
\* entry per path of the batch, that entry is the first attachment of the
\* batch with the path, and the entries are in the order in which their
\* paths are first seen; messages without attachments contribute nothing.
CollectKeepsFirstOfEachPath ==
    fn = "collectAttachments" =>
        LET all == AllAttachments(messages)
        IN  /\ DistinctPaths(collected)
            /\ PathsOf(collected) = PathsOf(all)
            /\ \A j \in 1..Len(collected) :
                  collected[j] = all[FirstWithPath(all, collected[j].path)]
            /\ \A i, j \in 1..Len(collected) :
                  i < j => FirstWithPath(all, collected[i].path)
                              < FirstWithPath(all, collected[j].path)

\* the batch with the paths A, B, A, C, the second A under another name,
\* gave A, B, C
CollectKeepsFirstOfEachPathWitness ==
    /\ fn = "collectAttachments"
    /\ AllAttachments(messages) = <<FileA, FileB, FileACopy, FileC>>
    /\ collected = <<FileA, FileB, FileC>>

\* C25: collectAttachments is idempotent: applied to a single message that
\* carries a list it returned, it returns that list, and applied to any
\* batch whose attachments have distinct paths it returns them unchanged,
\* the same elements in the same order.
CollectIsIdempotent ==
    /\ fn = "collectAgain" => collected = messages[1].attachments.list
    /\ (fn = "collectAttachments" /\ DistinctPaths(AllAttachments(messages)))
          => collected = AllAttachments(messages)

\* the result A, B, C of a batch with a duplicate was collected again
CollectIsIdempotentWitness ==
    /\ fn = "collectAgain"
    /\ messages[1].attachments.list = <<FileACopy, FileB, FileC>>
    /\ collected = <<FileACopy, FileB, FileC>>


(***************************************************************************)
(* Interactive components.                                                 *)
(***************************************************************************)
\* C26: the edit that updateComponents sends to the platform has a content
\* field if and only if text was given and a components field if and only
\* if a component set was given, and no other field; the fields carry the
\* text given and one row per row given.  A run that completes has sent
\* exactly one edit.
EditCarriesOnlyGivenFields ==
    \A i \in 1..Len(ops) :
        ops[i].op = "updateComponents" =>
            /\ Len(ops[i].sent) =< 1
            /\ ops[i].pc = "done" => Len(ops[i].sent) = 1
            /\ \A k \in 1..Len(ops[i].sent) :
                  LET edit == ops[i].sent[k]
                      args == ops[i].args
                  IN  /\ DOMAIN edit \subseteq {"content", "components"}
                      /\ "content" \in DOMAIN edit <=> args.text.defined
                      /\ "components" \in DOMAIN edit <=> args.components.defined
                      /\ args.text.defined => edit["content"] = args.text.value
                      /\ args.components.defined =>
                            Len(edit["components"]) = Len(args.components.value)

\* an edit with a component set and no text was sent, and the run completed
EditCarriesOnlyGivenFieldsWitness ==
    \E i \in 1..Len(ops) :
        /\ ops[i].op = "updateComponents"
        /\ ops[i].pc = "done"
        /\ ~ops[i].args.text.defined
        /\ ops[i].args.components.defined
        /\ DOMAIN ops[i].sent[1] = {"components"}

\* the builder a declared component is due
BuilderOf(comp) ==
    IF comp.type = "button" THEN "ButtonBuilder" ELSE "StringSelectMenuBuilder"

\* C27: the message sendComponents sends carries the text and one platform
\* row per action row, in the declared order of the rows; each row holds
\* one builder per declared component, in the declared order, of the
\* declared kind and with the declared identifier.  A run that completes
\* has sent exactly one message and returns the identifier the platform
\* gave that message; no other run returns a value.
RowsKeepDeclaredOrder ==
    \A i \in 1..Len(ops) :
        ops[i].op = "sendComponents" =>
            LET rows == ops[i].args.components.value
            IN  /\ Len(ops[i].sent) =< 1
                /\ IF ops[i].pc = "done"
                   THEN Len(ops[i].sent) = 1 /\ ops[i].result = "sent_comp_00" \o ToString(i)
                   ELSE ops[i].result = ""
                /\ \A k \in 1..Len(ops[i].sent) :
                      LET msg == ops[i].sent[k]
                      IN  /\ msg.content = ops[i].args.text.value
                          /\ Len(msg.components) = Len(rows)
                          /\ \A r \in 1..Len(rows) :
                                /\ Len(msg.components[r].components) = Len(rows[r].components)
                                /\ \A c \in 1..Len(rows[r].components) :
                                      /\ msg.components[r].components[c].custom_id
                                            = rows[r].components[c].custom_id
                                      /\ msg.components[r].components[c].builder
                                            = BuilderOf(rows[r].components[c])

\* a message with a row of two buttons and a row with a select menu was
\* sent, and its identifier returned
RowsKeepDeclaredOrderWitness ==
    \E i \in 1..Len(ops) :
        /\ ops[i].op = "sendComponents"
        /\ ops[i].pc = "done"
        /\ ops[i].result = "sent_comp_001"
        /\ Len(ops[i].sent[1].components) = 2
        /\ ops[i].sent[1].components[1].components[1].custom_id = "reject"
        /\ ops[i].sent[1].components[1].components[2].custom_id = "approve"
        /\ ops[i].sent[1].components[2].components[1].custom_id = "priority"

(***************************************************************************)
(* The chunks of a long text.                                              *)
(***************************************************************************)
\* C28: the sends of a sendMessage carry consecutive parts of its text, in
\* order, each of at most 2000 characters: the whole text at once if it
\* has at most 2000 characters, else parts none of which is empty.  When
\* the channel was found and the platform has accepted every send, the
\* parts sent make up the whole text, in one send for a text of at most
\* 2000 characters and in ceil(length / 2000) sends for a longer one.
ChunksMakeUpTheText ==
    \A i \in 1..Len(ops) :
        ops[i].op = "sendMessage" =>
            LET len == ops[i].args.len
                sent == ops[i].sent
            IN  /\ \A k \in 1..Len(sent) :
                      /\ sent[k].from = IF k = 1 THEN 0 ELSE sent[k - 1].to
                      /\ sent[k].to - sent[k].from =< 2000
                      /\ sent[k].to =< len
                      /\ len > 2000 => sent[k].to > sent[k].from
                /\ len =< 2000 => Len(sent) =< 1
                /\ (ops[i].pc = "done" /\ ~ops[i].caught /\ ops[i].platform > 1) =>
                      /\ sent[Len(sent)].to = len
                      /\ Len(sent) = IF len =< 2000 THEN 1
                                     ELSE (len \div 2000) + (IF len % 2000 = 0 THEN 0 ELSE 1)

\* a text of 4001 characters has been sent in three parts, the last of one
\* character
ChunksMakeUpTheTextWitness ==
    \E i \in 1..Len(ops) :
        /\ ops[i].op = "sendMessage"
        /\ ops[i].pc = "done"
        /\ ops[i].args.len = 4001
        /\ ops[i].sent = <<[from |-> 0, to |-> 2000], [from |-> 2000, to |-> 4000],
                           [from |-> 4000, to |-> 4001]>>

(***************************************************************************)
(* C29: the mount validator accepts a request only if the resolved host    *)
(* path is one of the permitted roots or lies below one, and none of its   *)
(* names matches a deny pattern; a sibling that only shares a root's       *)
(* string prefix, a path outside every root and a denied path are          *)
(* rejected, and a rejection carries no mount at all.                      *)
(***************************************************************************)
RootStrings == {"/home/u/projects", "/repos"}

DeniedNames == {".ssh", "key.pem"}

Below(p, r) ==
    \/ p = r
    \/ /\ Len(p) > Len(r)
       /\ SubSeq(p, 1, Len(r) + 1) = r \o "/"

MountRejected == ~verdict.allowed /\ verdict.hostPath = <<>> /\ verdict.reason # "allowed"

AcceptsOnlyContainedAndNotDenied ==
    fn = "validateMount" =>
        LET real == ResolvePath(mount.hostPath)
            contained == \E r \in RootStrings : Below(PathString(real), r)
            denied == /\ mount.allowlist.blockedPatterns # <<>>
                      /\ \E k \in 1..Len(real) : real[k] \in DeniedNames
        IN  /\ verdict.allowed => contained /\ ~denied /\ verdict.hostPath = real
            /\ ~contained \/ denied => MountRejected
            /\ ~verdict.allowed => MountRejected

AcceptsOnlyContainedAndNotDeniedWitness ==
    /\ fn = "validateMount"
    /\ mount.hostPath = Path(TRUE, <<"projects", "..", "projects-evil">>)
    /\ mount.allowlist.blockedPatterns = <<>>
    /\ MountRejected

(***************************************************************************)
(* C30: when the allowlist forces non-primary groups to read-only and the  *)
(* requester is not primary, an accepted mount is read-only, whatever the  *)
(* request asks for and whatever the containing root permits.              *)
(***************************************************************************)
NonPrimaryMountsAreReadOnly ==
    /\ fn = "validateMount"
    /\ mount.allowlist.nonMainReadOnly
    /\ ~mount.isMain
    /\ verdict.allowed
    => verdict.readonly

NonPrimaryMountsAreReadOnlyWitness ==
    /\ fn = "validateMount"
    /\ mount.allowlist.nonMainReadOnly
    /\ ~mount.isMain
    /\ mount.readonly = [defined |-> TRUE, value |-> FALSE]
    /\ mount.hostPath = Path(TRUE, <<"projects", "repos">>)
    /\ verdict.allowed
    /\ verdict.hostPath = <<"home", "u", "projects", "repos">>
    /\ verdict.readonly

(***************************************************************************)
(* C31: findChannel returns the first channel of the list whose ownsJid    *)
(* accepts the address, connected or not, and returns no channel only      *)
(* when no channel of the list owns the address.                           *)
(***************************************************************************)
FindChannelLooksAtOwnershipOnly ==
    lastOp.op = "findChannel" =>
        LET owns(k) == lastOp.jid \in channels[k].owned
        IN  /\ lastOp.found \in 0..Len(channels)
            /\ lastOp.found = 0 <=> ~\E k \in 1..Len(channels) : owns(k)
            /\ lastOp.found # 0 =>
                   /\ owns(lastOp.found)
                   /\ \A k \in 1..(lastOp.found - 1) : ~owns(k)
            /\ Len(calls) = lastOp.callsBefore

FindChannelLooksAtOwnershipOnlyWitness ==
    /\ lastOp.op = "findChannel"
    /\ Len(channels) = 2
    /\ lastOp.found = 2
    /\ ~channels[2].connected
    /\ channels[1].connected
    /\ lastOp.jid \notin channels[1].owned

(***************************************************************************)
(* C32: ownsJid answers true exactly for the addresses that start with     *)
(* "dc:", gives the same answer for an address at every stage of the       *)
(* channel's lifecycle, and a call of it changes nothing of the channel.   *)
(***************************************************************************)
DiscordAddresses == {"dc:1234567890123456", "dc:"}

OwnsJidAnswers ==
    \A i \in 1..Len(ops) :
        ops[i].op = "ownsJid" =>
            /\ ops[i].result = (ops[i].args.text.value \in DiscordAddresses)
            /\ \A j \in 1..Len(ops) :
                   (ops[j].op = "ownsJid" /\ ops[j].args.text = ops[i].args.text)
                       => ops[j].result = ops[i].result

OwnsJidIsPure ==
    /\ []OwnsJidAnswers
    /\ [][Len(ops') > Len(ops) /\ ops'[Len(ops')].op = "ownsJid"
              => UNCHANGED <<client, clients, handlers, callbacks, now>>]_vars

OwnsJidIsPureWitness ==
    /\ Len(ops) = 3
    /\ \A i \in 1..3 :
           /\ ops[i].op = "ownsJid"
           /\ ops[i].args.text.value = "dc:1234567890123456"
           /\ ops[i].result = TRUE
    /\ ops[1].stage = "new"
    /\ ops[2].stage = "connected"
    /\ ops[3].stage = "disconnected"

(***************************************************************************)
(* C33: every attachment path of a delivered message is inbox/ followed   *)
(* by a file name made of letters, digits, ".", "_" and "-" only: it is    *)
(* relative, holds no separator after inbox/, and names a file directly    *)
(* in the inbox directory.                                                 *)
(***************************************************************************)
FileNameChars ==
    {"a", "b", "c", "d", "e", "f", "g", "h", "i", "j", "k", "l", "m", "n", "o", "p", "q",
     "r", "s", "t", "u", "v", "w", "x", "y", "z", "A", "B", "C", "D", "E", "F", "G", "H",
     "I", "J", "K", "L", "M", "N", "O", "P", "Q", "R", "S", "T", "U", "V", "W", "X", "Y",
     "Z", "0", "1", "2", "3", "4", "5", "6", "7", "8", "9", ".", "_", "-"}

InInbox(path) ==
    /\ Len(path) > 6
    /\ SubSeq(path, 1, 6) = "inbox/"
    /\ \A k \in 7..Len(path) : SubSeq(path, k, k) \in FileNameChars

DeliveredPathsStayInInbox ==
    \A k \in 1..Len(callbacks) :
        callbacks[k].cb = "onMessage" =>
            \A a \in 1..Len(callbacks[k].msg.attachments.list) :
                InInbox(callbacks[k].msg.attachments.list[a].path)

DeliveredPathsStayInInboxWitness ==
    \E k \in 1..Len(callbacks) :
        /\ callbacks[k].cb = "onMessage"
        /\ Len(callbacks[k].msg.attachments.list) = 1
        /\ callbacks[k].msg.attachments.list[1].filename = "../../etc/passwd"
        /\ callbacks[k].msg.attachments.list[1].path = "inbox/1-.._.._etc_passwd"

(***************************************************************************)
(* C34: the body of every message delivered for an event that mentions     *)
(* the agent starts with the trigger phrase, also when the event is a      *)
(* reply and when it carries attachments.                                  *)
(***************************************************************************)
MentionsTheAgent(ev) ==
    ev.mentionsBot \/ ev.content = "<@999> hi"

StartsWithTrigger(body) ==
    /\ Len(body) >= 5
    /\ SubSeq(body, 1, 5) \in {"@Andy", "@andy", "@ANDY"}
    /\ Len(body) > 5 => SubSeq(body, 6, 6) \in {" ", "\n"}

MentionedDeliveriesStartWithTrigger ==
    \A k \in 1..Len(callbacks) :
        (callbacks[k].cb = "onMessage" /\ MentionsTheAgent(handlers[callbacks[k].h].ev))
            => StartsWithTrigger(callbacks[k].msg.content)

(***************************************************************************)
(* C35: from the return of disconnect() until the next connect(), the      *)
(* channel calls neither onMessage nor onChatMetadata, even if a handler   *)
(* was suspended on a reply lookup, a download or an acknowledgment when   *)
(* disconnect() was called.  The channel is between a disconnect() and     *)
(* the next connect() exactly when this.client is null and a client has    *)
(* been made.                                                              *)
(***************************************************************************)
NoCallbackAfterDisconnect ==
    [][(client = 0 /\ clients # <<>> /\ client' = 0) => callbacks' = callbacks]_vars

(***************************************************************************)
(* C36: the messages of one conversation reach onMessage in the order in   *)
(* which the channel received their events, also when an earlier event     *)
(* waits for a reply lookup or a download and a later one does not.  The   *)
(* handler runs are numbered in the order of the events.                   *)
(***************************************************************************)
DeliveryKeepsEventOrder ==
    \A j, k \in 1..Len(callbacks) :
        (/\ j < k
         /\ callbacks[j].cb = "onMessage"
         /\ callbacks[k].cb = "onMessage"
         /\ callbacks[j].jid = callbacks[k].jid)
            => callbacks[j].h < callbacks[k].h

(***************************************************************************)
(* C37: two distinct attachments persisted for one conversation, in one    *)
(* message or in messages handled at the same time, never get the same     *)
(* path.                                                                   *)
(***************************************************************************)
DeliveredAttachments ==
    {<<k, a>> : k \in 1..Len(callbacks), a \in 1..2} \cap
    {x \in (1..Len(callbacks)) \X (1..2) :
        /\ callbacks[x[1]].cb = "onMessage"
        /\ x[2] =< Len(callbacks[x[1]].msg.attachments.list)}

PersistedPathsAreDistinct ==
    \A x, y \in DeliveredAttachments :
        (x # y /\ callbacks[x[1]].jid = callbacks[y[1]].jid)
            => callbacks[x[1]].msg.attachments.list[x[2]].path
                   # callbacks[y[1]].msg.attachments.list[y[2]].path

(***************************************************************************)
(* C38: onMessage is called for a button or select interaction only after  *)
(* its deferUpdate() has resolved; the acknowledgment is issued before     *)
(* the registration check, so also on an unregistered conversation; an     *)
(* interaction of another kind is neither acknowledged nor delivered.      *)
(***************************************************************************)
DeliveredOnlyAfterAcknowledgment ==
    \A id \in 1..Len(handlers) :
        LET h == handlers[id]
            delivered == \E k \in 1..Len(callbacks) : callbacks[k].h = id
        IN  /\ delivered => h.ack = "resolved"
            /\ h.ev.kind \in {"button", "select"} => h.ack # "none"
            /\ h.ev.kind \notin {"button", "select"} => h.ack = "none" /\ ~delivered

DeliveredOnlyAfterAcknowledgmentWitness ==
    /\ Len(handlers) = 1
    /\ handlers[1].ev.kind = "button"
    /\ handlers[1].ev.channelId = "1"
    /\ handlers[1].ack = "resolved"
    /\ Len(callbacks) = 1
    /\ callbacks[1].cb = "onMessage"
    /\ callbacks[1].h = 1

(***************************************************************************)
(* C39: whatever connect() and disconnect() calls were made, at most one   *)
(* client made by the channel is left undestroyed with its handlers        *)
(* attached.  Every client gets its handlers in connect().                 *)
(***************************************************************************)
AtMostOneLiveClient ==
    Cardinality({c \in 1..Len(clients) : ~clients[c].destroyed}) =< 1

(***************************************************************************)
(* C40: when the platform rejects a chunk of a split text, sendMessage     *)
(* sends no later chunk and completes without throwing: the chunks the     *)
(* platform has accepted are the first chunks of the text, with no gap.    *)
(***************************************************************************)
NthChunk(len, k) ==
    [from |-> (k - 1) * 2000, to |-> IF k * 2000 < len THEN k * 2000 ELSE len]

AcceptedChunksAreAPrefix ==
    \A i \in 1..Len(ops) :
        ops[i].op = "sendMessage" =>
            LET o == ops[i]
            IN  /\ o.pc # "threw"
                /\ o.error = ""
                /\ \A k \in 1..Len(o.accepted) : o.accepted[k] = NthChunk(o.args.len, k)
                /\ Len(o.sent) =< Len(o.accepted) + 1
                /\ (o.caught /\ o.sent # <<>>) =>
                       /\ o.pc = "done"
                       /\ Len(o.sent) = Len(o.accepted) + 1

\* the second of the three chunks of a text of 4001 characters was rejected:
\* the first is accepted, the third was never sent
AcceptedChunksAreAPrefixWitness ==
    \E i \in 1..Len(ops) :
        /\ ops[i].op = "sendMessage"
        /\ ops[i].args.len = 4001
        /\ ops[i].pc = "done"
        /\ ops[i].caught
        /\ ops[i].accepted = <<[from |-> 0, to |-> 2000]>>
        /\ ops[i].sent = <<[from |-> 0, to |-> 2000], [from |-> 2000, to |-> 4000]>>

====
